---- MODULE Spec2Model ----
(***************************************************************************)
(* Model of `humility dump` (cmd/dump/src/lib.rs): the ersatz AgentCore    *)
(* (flash map, RAM regions, registers), the decoding of an in situ dump    *)
(* into it (process_dump), the simulated dumper's chunk loop, and the      *)
(* enumeration and grouping of dump area headers (read_dump_headers,       *)
(* task_areas).                                                            *)
(***************************************************************************)
EXTENDS Integers, Sequences, FiniteSets, TLC

(***************************************************************************)
(* Bounds of the model.                                                    *)
(***************************************************************************)
\* addresses are 0 .. AddrSpace-1; every sum of an address and a length in
\* the model stays far below 2^32, so the u32 sums of the code do not wrap
AddrSpace == 3
\* longest byte vector of one RAM region
MaxLen == 2
\* most records decoded by one process_dump call
MaxRecords == 3
\* longest read issued against the virtual core
MaxRead == 3
\* most dump areas of the device
MaxAreas == 3
\* round trips of one header enumeration the model follows
MaxTrips == MaxAreas + 3

Addr == 0 .. (AddrSpace - 1)
\* byte values found in RAM (dump payloads, target memory)
RamBytes == {0, 1}
\* the byte vectors the model stores: of length 0 .. MaxLen, alternating
\* between the two RAM byte values, so that neighbouring bytes always differ
Contents == {[i \in 1 .. n |-> (i + p) % 2] : n \in 0 .. MaxLen, p \in RamBytes}
\* ARMRegister ids known to ARMRegister::from_u16, and one id it rejects
Regs == {"R0", "PC"}
BadReg == "R?"
RegVals == {0, 1}
\* task markers
Tasks == {"T1", "T2"}
NoTask == "none"

Max(S) == CHOOSE x \in S : \A y \in S : y <= x

VARIABLES
    \* ---- AgentCore (lib.rs 173-177)
    flash,          \* HubrisFlashMap: regions base -> (size, offset), contents
    ram_regions,    \* BTreeMap<u32, Vec<u8>>
    registers,      \* HashMap<ARMRegister, u32>
    \* ---- position of the run that fills and then serves the AgentCore
    phase,          \* "new", "process", "simulate", "loaded", "failed"
    ptask,          \* the task of the call in progress (its `task` argument)
    nrec,           \* records decoded / chunks inserted by the call in progress
    segments,       \* simulate: segments still to be read, (base, size) pairs
    ret,            \* the last operation on the AgentCore and its result
    lastAdd,        \* history: register -> value of its latest add_register
    \* ---- dump areas of the device and their enumeration
    areas,          \* answer of the agent to read_dump(i, 0), per area
    rdata_size,     \* HiffyContext::rdata_size()
    rsize,          \* size of one read_dump reply
    raw,            \* argument of read_dump_headers
    hpc,            \* "idle", "loop", "done", "grouped"
    base,           \* read_dump_headers: first index of the next batch
    rval,           \* read_dump_headers: headers collected so far
    hret,           \* result of read_dump_headers: "none" while running,
                    \* "ok", or the failure: "config", "transport", "parse",
                    \* "agent"
    trips,          \* context.run round trips made by read_dump_headers
    groups,         \* result of task_areas on the returned headers
    printed,        \* dump_list: the rows it printed
    \* ---- one run of dump_via_agent (lib.rs 1042-1295)
    subargs,        \* DumpArgs, as accepted by the parser
    is_net,         \* core.is_net()
    opc,            \* position of the run in dump_via_agent
    dtask,          \* the local `task`
    sel,            \* the local `area`: the selector handed to read_dump
    header0,        \* the local `header`: area 0 as read_dump_header saw it
    current_task,   \* simulate: the task hubris.current_task found running
    picked,         \* read_dump: (base, headers, task) it resolved
    halted,         \* the target core is halted
    timeout,        \* the per-call timeout of the core, in seconds
    log,            \* operations issued to the target, the device and the
                    \* core file writer, in order, each with its outcome and
                    \* the timeout it ran under
    result,         \* "running", "ok", "panic", or the error returned
    taken,          \* take_dump: the program it ran, its results and rindex
    \* ---- the read of one dump (lib.rs 561-684 and 1009-1039)
    rcaller,        \* read_dump_at: its caller, read_dump_header or read_dump
    dheaders,       \* read_dump: the headers of the dump it reads, as the
                    \* device holds them
    dbase,          \* read_dump: index of the first area of the dump
    dndx,           \* read_dump: position in the headers of the area being read
    offsets,        \* read_dump_at: (offset, len) of every window after the first
    consumed,       \* read_dump_at: results of the area walked so far
    pulled,         \* read_dump: the buffer its callback appends to, as
                    \* slices (area, from, to)
    calls,          \* DumpAgent.read_dump(index, offset) calls sent, in order
    rpc,            \* position in read_dump / read_dump_at
    rret,           \* their result: none while running, ok, or the error
    processed,      \* the buffers process_dump was called on, in order
    \* ---- process_dump on a buffer of bytes (lib.rs 864-953)
    dump,           \* the header's nsegments, the records laid out behind
                    \* the segment header table, and dump.len()
    dump_offset     \* the local `offset`

coreVars == <<flash, ram_regions, registers, phase, ptask, nrec, segments,
              ret, lastAdd>>
areaVars == <<areas, rdata_size, rsize, raw, hpc, base, rval, hret, trips,
              groups, printed>>
readVars == <<rcaller, dheaders, dbase, dndx, offsets, consumed, pulled,
              calls, rpc, rret, processed>>
parseVars == <<dump, dump_offset>>
runVars == <<parseVars, readVars, taken, subargs, is_net, opc, dtask, sel, header0,
             current_task, picked, halted, timeout, log, result>>
vars == <<flash, ram_regions, registers, phase, ptask, nrec, segments,
          ret, lastAdd, areas, rdata_size, rsize, raw, hpc, base, rval,
          hret, trips, groups, printed, subargs, is_net, opc, dtask, sel, header0,
          current_task, picked, halted, timeout, log, result,
          taken, rcaller, dheaders, dbase, dndx, offsets, consumed, pulled,
          calls, rpc, rret, processed, dump, dump_offset>>

\* DumpArgs with no flag given (lib.rs 98-168); `area` is an Option<usize>
NoArea == 0 - 1
NoArgs ==
    [simulate_dumper |-> FALSE, emulate_dumper |-> FALSE,
     force_dump_agent |-> FALSE, force_manual_initiation |-> FALSE,
     force_read |-> FALSE, initialize_dump_agent |-> FALSE,
     retain_state |-> FALSE, force_overwrite |-> FALSE,
     stock_dumpfile |-> FALSE, task |-> NoTask, area |-> NoArea,
     dump_agent_status |-> FALSE, leave_halted |-> FALSE, list |-> FALSE]
\* locals of dump_via_agent and read_dump before they are assigned
NoHeader == [dumper |-> "unread"]
NoPick == [base |-> 0, n |-> 0, task |-> NoTask]
NoSel == [kind |-> "none", at |-> 0]
\* process_dump not called on a buffer
NoDump == [nsegments |-> 0, recs |-> <<>>, len |-> 0]
\* take_dump before it ran a program
NoProgram == [rindex |-> 0, results |-> <<>>]

(***************************************************************************)
(* AgentCore                                                               *)
(***************************************************************************)
EmptyMap == [b \in {} |-> <<>>]

\* HubrisFlashMap values the archive can supply: one region at [0, 2), and
\* two adjacent regions [0, 1) and [1, 3) stored in the blob in the opposite
\* order.  Flash bytes are 2..4, so a flash byte is never mistaken for a RAM
\* byte.
FlashMaps ==
    { [regions |-> [b \in {0} |-> [size |-> 2, offset |-> 1]],
       contents |-> <<2, 3, 4>>],
      [regions |-> [b \in {0, 1} |->
                      IF b = 0 THEN [size |-> 1, offset |-> 2]
                               ELSE [size |-> 2, offset |-> 0]],
       contents |-> <<2, 3, 4>>] }

Ok(d) == [ok |-> TRUE, data |-> d, addr |-> 0]
Err(a) == [ok |-> FALSE, data |-> <<>>, addr |-> a]

\* contents[from .. from+n) with 0-based `from`
Slice(s, from, n) == SubSeq(s, from + 1, from + n)

add_ram_region(ram, addr, contents) ==
    [b \in (DOMAIN ram) \cup {addr} |-> IF b = addr THEN contents ELSE ram[b]]

\* a HashMap entry that keeps the value it already has
add_register_keep_first(regs, reg, val) ==
    IF reg \in DOMAIN regs THEN regs
    ELSE [r \in (DOMAIN regs) \cup {reg} |-> IF r = reg THEN val ELSE regs[r]]

add_register(regs, reg, val) ==
    [r \in (DOMAIN regs) \cup {reg} |-> IF r = reg THEN val ELSE regs[r]]

RECURSIVE read_flash(_, _, _)
read_flash(fl, addr, n) ==
    LET below == {b \in DOMAIN fl.regions : b <= addr} IN
    IF below = {} THEN Err(addr)
    ELSE
      LET b == Max(below)
          size == fl.regions[b].size
          offset == fl.regions[b].offset
      IN
      IF b > addr \/ b + size <= addr THEN Err(addr)
      ELSE
        LET start == addr - b
            roffs == offset + start
        IN
        IF start + n <= size THEN Ok(Slice(fl.contents, roffs, n))
        ELSE
          LET len == size - start
              rest == read_flash(fl, addr + len, n - len)
          IN
          IF rest.ok THEN Ok(Slice(fl.contents, roffs, len) \o rest.data)
          ELSE rest

RECURSIVE read(_, _, _, _)
read(ram, fl, addr, n) ==
    LET below == {b \in DOMAIN ram : b <= addr} IN
    IF below = {} THEN read_flash(fl, addr, n)
    ELSE
      LET b == Max(below)
          contents == ram[b]
      IN
      IF b > addr \/ b + Len(contents) <= addr THEN read_flash(fl, addr, n)
      ELSE
        LET start == addr - b IN
        IF start + n <= Len(contents) THEN Ok(Slice(contents, start, n))
        ELSE
          LET len == Len(contents) - start
              rest == read(ram, fl, addr + len, n - len)
          IN
          IF rest.ok THEN Ok(Slice(contents, start, len) \o rest.data)
          ELSE rest

read_reg(regs, reg) ==
    IF reg \in DOMAIN regs THEN [ok |-> TRUE, val |-> regs[reg]]
    ELSE [ok |-> FALSE, val |-> 0]

(***************************************************************************)
(* process_dump (lib.rs 864-953).  The buffer after the segment header     *)
(* table is a run of self-describing records; the loop decodes one per     *)
(* iteration, and the buffer's next record is drawn when the loop reaches  *)
(* it.                                                                     *)
(***************************************************************************)
\* what DumpSegment::from can make of the bytes at `offset`
\* Data records: `out` is what the decompressor emits for the record's
\* compressed bytes: uncompressed_length bytes, one byte more, or nothing
\* at all for a record of one byte
DataSegments ==
    {s \in [kind : {"Data"}, address : Addr, uncompressed_length : 0 .. MaxLen,
            out : Contents] :
        \/ Len(s.out) = s.uncompressed_length
        \/ Len(s.out) = s.uncompressed_length + 1
        \/ (s.out = <<>> /\ s.uncompressed_length = 1)}
DumpSegments ==
    {[kind |-> "Task", task |-> t] : t \in Tasks}
    \cup {[kind |-> "Register", register |-> r, value |-> v] :
            r \in Regs \cup {BadReg}, v \in RegVals}
    \cup DataSegments
    \cup {[kind |-> "Unknown"], [kind |-> "Short"]}

\* DumpLzss::decompress into SliceWriter(&mut contents), contents = vec![0; len]:
\* `out` is what the decompressor emits for the segment's compressed bytes;
\* the writer fails when it overflows the slice, and a shorter output leaves
\* the tail of the zeroed vector as it was
decompress(out, len) ==
    IF Len(out) > len THEN [ok |-> FALSE, contents |-> <<>>]
    ELSE [ok |-> TRUE,
          contents |-> [i \in 1 .. len |-> IF i <= Len(out) THEN out[i] ELSE 0]]

\* a parser that takes any Task record for the expected one
process_segment_any_task(ram, regs, task, seg) ==
    LET fail == [ok |-> FALSE, ram_regions |-> ram, registers |-> regs]
        same == [ok |-> TRUE, ram_regions |-> ram, registers |-> regs]
    IN
    CASE seg.kind = "Short" -> fail
      [] seg.kind = "Task" -> IF task = NoTask THEN fail ELSE same
      [] seg.kind = "Register" ->
            IF seg.register \in Regs
            THEN [same EXCEPT
                    !.registers = add_register(regs, seg.register, seg.value)]
            ELSE fail
      [] seg.kind = "Data" ->
            LET d == decompress(seg.out, seg.uncompressed_length) IN
            IF d.ok
            THEN [same EXCEPT
                    !.ram_regions = add_ram_region(ram, seg.address, d.contents)]
            ELSE fail
      [] OTHER -> fail

\* one iteration of the `while offset < dump.len()` loop
process_segment(ram, regs, task, seg) ==
    LET fail == [ok |-> FALSE, ram_regions |-> ram, registers |-> regs]
        same == [ok |-> TRUE, ram_regions |-> ram, registers |-> regs]
    IN
    CASE seg.kind = "Short" -> fail
      [] seg.kind = "Task" ->
            IF task = NoTask \/ task # seg.task THEN fail ELSE same
      [] seg.kind = "Register" ->
            IF seg.register \in Regs
            THEN [same EXCEPT
                    !.registers = add_register(regs, seg.register, seg.value)]
            ELSE fail
      [] seg.kind = "Data" ->
            LET d == decompress(seg.out, seg.uncompressed_length) IN
            IF d.ok
            THEN [same EXCEPT
                    !.ram_regions = add_ram_region(ram, seg.address, d.contents)]
            ELSE fail
      [] OTHER -> fail

NoVal == 0 - 1

Res(b) == [ok |-> b]

\* entry of process_dump: the checks on the segment header table
ProcessDumpStart(task, nsegments, len) ==
    /\ phase = "new"
    /\ LET offset == nsegments * 8 IN
       IF offset > len \/ offset = len
       THEN /\ phase' = "failed"
            /\ ptask' = NoTask
            /\ ret' = [op |-> "process_dump", arg |-> <<>>, res |-> Res(FALSE)]
       ELSE /\ phase' = "process"
            /\ ptask' = task
            /\ ret' = [op |-> "process_dump", arg |-> <<>>, res |-> Res(TRUE)]
    /\ UNCHANGED <<flash, ram_regions, registers, nrec, segments, lastAdd>>
    /\ UNCHANGED areaVars
    /\ UNCHANGED runVars

ProcessSegment(seg) ==
    /\ phase = "process"
    /\ nrec < MaxRecords
    /\ LET r == process_segment(ram_regions, registers, ptask, seg) IN
       /\ ram_regions' = r.ram_regions
       /\ registers' = r.registers
       /\ phase' = IF r.ok THEN "process" ELSE "failed"
       /\ ptask' = IF r.ok THEN ptask ELSE NoTask
       /\ nrec' = IF r.ok THEN nrec + 1 ELSE 0
       /\ ret' = [op |-> "process_dump", arg |-> <<seg.kind>>,
                  res |-> Res(r.ok)]
    /\ lastAdd' = IF seg.kind = "Register" /\ seg.register \in Regs
                  THEN [lastAdd EXCEPT ![seg.register] = seg.value]
                  ELSE lastAdd
    /\ UNCHANGED <<flash, segments>>
    /\ UNCHANGED areaVars
    /\ UNCHANGED runVars

\* offset has reached dump.len(): process_dump returns Ok
ProcessDumpDone ==
    /\ phase = "process"
    /\ nrec >= 1
    /\ phase' = "loaded"
    /\ ptask' = NoTask
    /\ nrec' = 0
    /\ ret' = [op |-> "process_dump", arg |-> <<"end">>, res |-> Res(TRUE)]
    /\ UNCHANGED <<flash, ram_regions, registers, segments, lastAdd>>
    /\ UNCHANGED areaVars
    /\ UNCHANGED runVars

(***************************************************************************)
(* The simulated dumper (lib.rs 1097-1171): registers read from the halted *)
(* target, then each segment read in chunks of at most input_len bytes.    *)
(***************************************************************************)
\* (bytes.len() / 2) - (bytes.len() / 8), scaled down from 384
input_len == 2
MaxSegSize == 3

Segs == {s \in Addr \X (1 .. MaxSegSize) : s[1] + s[2] <= AddrSpace}
Disjoint(s, t) == s[1] + s[2] <= t[1] \/ t[1] + t[2] <= s[1]
\* hubris.dump_segments: a list of disjoint memory regions
SegmentLists ==
    {<<>>} \cup {<<s>> : s \in Segs}
    \cup {<<s, t>> : <<s, t>> \in {p \in Segs \X Segs : Disjoint(p[1], p[2])}}

Min(a, b) == IF a <= b THEN a ELSE b

\* for i in 0..=ARMRegister::max(): add_register(reg, core.read_reg(reg)?)
RECURSIVE add_registers(_, _, _)
add_registers(regs, todo, vals) ==
    IF todo = {} THEN regs
    ELSE LET reg == CHOOSE r \in todo : TRUE IN
         add_registers(add_register(regs, reg, vals[reg]), todo \ {reg}, vals)

SimulateStart(task, segs, vals) ==
    /\ phase = "new"
    /\ ptask' = task
    /\ IF task = NoTask
       THEN /\ registers' = add_registers(registers, Regs, vals)
            /\ lastAdd' = vals
       ELSE UNCHANGED <<registers, lastAdd>>
    /\ segments' = segs
    /\ phase' = "simulate"
    /\ ret' = [op |-> "simulate", arg |-> <<>>, res |-> Res(TRUE)]
    /\ UNCHANGED <<flash, ram_regions, nrec>>
    /\ UNCHANGED areaVars
    /\ UNCHANGED runVars

\* one iteration of `while remain > 0`: `bytes` is what core.read_8 returned,
\* `codec` the verdict of the compress/decompress round trip on it
SimulateChunk(bytes, codec) ==
    /\ phase = "simulate"
    /\ segments # <<>>
    /\ LET addr == Head(segments)[1]
           remain == Head(segments)[2]
           nbytes == Min(remain, input_len)
       IN
       /\ Len(bytes) = nbytes
       /\ IF codec # "ok"
          THEN /\ phase' = "failed"
               /\ ptask' = NoTask
               /\ nrec' = 0
               /\ segments' = <<>>
               /\ ret' = [op |-> "simulate", arg |-> <<codec>>,
                          res |-> Res(FALSE)]
               /\ UNCHANGED ram_regions
          ELSE /\ ram_regions' = add_ram_region(ram_regions, addr, bytes)
               /\ segments' = IF remain - nbytes > 0
                              THEN <<<<addr + nbytes, remain - nbytes>>>>
                                   \o Tail(segments)
                              ELSE Tail(segments)
               /\ nrec' = nrec + 1
               /\ phase' = "simulate"
               /\ ptask' = ptask
               /\ ret' = [op |-> "simulate", arg |-> <<"chunk">>,
                          res |-> Res(TRUE)]
    /\ UNCHANGED <<flash, registers, lastAdd>>
    /\ UNCHANGED areaVars
    /\ UNCHANGED runVars

SimulateDone ==
    /\ phase = "simulate"
    /\ segments = <<>>
    /\ phase' = "loaded"
    /\ ptask' = NoTask
    /\ nrec' = 0
    /\ ret' = [op |-> "simulate", arg |-> <<"end">>, res |-> Res(TRUE)]
    /\ UNCHANGED <<flash, ram_regions, registers, segments, lastAdd>>
    /\ UNCHANGED areaVars
    /\ UNCHANGED runVars

(***************************************************************************)
(* impl Core for AgentCore (lib.rs 267-330), as used by the core file      *)
(* writer once the AgentCore is filled.                                    *)
(***************************************************************************)
agentVars == <<flash, ram_regions, registers>>

Serve(op, arg, res) ==
    /\ phase = "loaded"
    /\ ret' = [op |-> op, arg |-> arg, res |-> res]
    /\ UNCHANGED <<phase, ptask, nrec, segments, lastAdd>>
    /\ UNCHANGED areaVars
    /\ UNCHANGED runVars

read_8(addr, n) ==
    /\ Serve("read_8", <<>>, read(ram_regions, flash, addr, n))
    /\ UNCHANGED agentVars

ReadReg(reg) ==
    /\ Serve("read_reg", <<reg>>, read_reg(registers, reg))
    /\ UNCHANGED agentVars

write_reg(reg, value) ==
    /\ Serve("write_reg", <<>>, Res(FALSE))
    /\ UNCHANGED agentVars

write_word_32(addr, data) ==
    /\ Serve("write_word_32", <<>>, Res(FALSE))
    /\ UNCHANGED agentVars

\* a write_8 that stores the bytes as a RAM region and reports success
write_8_stores(addr, data) ==
    /\ Serve("write_8", <<>>, Res(TRUE))
    /\ ram_regions' = add_ram_region(ram_regions, addr, data)
    /\ UNCHANGED <<flash, registers>>

write_8(addr, data) ==
    /\ Serve("write_8", <<>>, Res(FALSE))
    /\ UNCHANGED agentVars

halt ==
    /\ Serve("halt", <<>>, Res(FALSE))
    /\ UNCHANGED agentVars

run ==
    /\ Serve("run", <<>>, Res(FALSE))
    /\ UNCHANGED agentVars

step ==
    /\ Serve("step", <<>>, Res(FALSE))
    /\ UNCHANGED agentVars

reset ==
    /\ Serve("reset", <<>>, Res(FALSE))
    /\ UNCHANGED agentVars

reset_and_halt ==
    /\ Serve("reset_and_halt", <<>>, Res(FALSE))
    /\ UNCHANGED agentVars

InitCore ==
    /\ flash \in FlashMaps
    /\ ram_regions = EmptyMap
    /\ registers = EmptyMap
    /\ phase = "new"
    /\ ptask = NoTask
    /\ nrec = 0
    /\ segments = <<>>
    /\ ret = [op |-> "new", arg |-> <<>>, res |-> Res(TRUE)]
    /\ lastAdd = [r \in Regs |-> NoVal]
    /\ areas = <<>>
    /\ rdata_size = 0
    /\ rsize = 0
    /\ raw = FALSE
    /\ hpc = "idle"
    /\ base = 0
    /\ rval = <<>>
    /\ hret = "none"
    /\ trips = 0
    /\ groups = [panic |-> FALSE, map |-> <<>>]
    /\ printed = <<>>
    /\ subargs = NoArgs
    /\ is_net = FALSE
    /\ opc = "off"
    /\ dtask = NoTask
    /\ sel = NoSel
    /\ header0 = NoHeader
    /\ current_task = NoTask
    /\ picked = NoPick
    /\ halted = FALSE
    /\ timeout = 0
    /\ log = <<>>
    /\ taken = NoProgram
    /\ rcaller = "none"
    /\ dheaders = <<>>
    /\ dbase = 0
    /\ dndx = 0
    /\ offsets = <<>>
    /\ consumed = 0
    /\ pulled = <<>>
    /\ calls = <<>>
    /\ rpc = "off"
    /\ rret = "none"
    /\ processed = <<>>
    /\ dump = NoDump
    /\ dump_offset = 0
    /\ result = "off"

NextCore ==
    \/ \E task \in Tasks \cup {NoTask}, nsegments \in 0 .. 1, len \in {0, 8, 24} :
          ProcessDumpStart(task, nsegments, len)
    \/ \E seg \in DumpSegments : ProcessSegment(seg)
    \/ ProcessDumpDone
    \/ \E task \in Tasks \cup {NoTask}, segs \in SegmentLists,
          vals \in [Regs -> RegVals] : SimulateStart(task, segs, vals)
    \/ \E bytes \in Contents, codec \in {"ok", "overflow", "mismatch"} :
          SimulateChunk(bytes, codec)
    \/ SimulateDone
    \/ \E addr \in Addr, n \in 1 .. MaxRead : read_8(addr, n)
    \/ \E reg \in Regs : ReadReg(reg)
    \/ \E reg \in Regs : write_reg(reg, 1)
    \/ \E addr \in Addr : write_word_32(addr, 1)
    \/ \E addr \in Addr : write_8(addr, <<1>>)
    \/ halt
    \/ run
    \/ step
    \/ reset
    \/ reset_and_halt

SpecCore == InitCore /\ [][NextCore]_vars

(***************************************************************************)
(* Vocabulary of the claims about the virtual core.                        *)
(***************************************************************************)
\* RAM region with base b covers address a
Covers(b, a) == b <= a /\ a < b + Len(ram_regions[b])
InRam(a) == \E b \in DOMAIN ram_regions : Covers(b, a)
InFlash(a) ==
    \E b \in DOMAIN flash.regions : b <= a /\ a < b + flash.regions[b].size
Mapped(a) == InRam(a) \/ InFlash(a)
\* the byte region b holds for address a
RamByte(b, a) == ram_regions[b][a - b + 1]
Reads == Addr \X (1 .. MaxRead)
DoRead(a, n) == read(ram_regions, flash, a, n)

\* C1: a read whose range lies fully inside one RAM region succeeds and
\* returns that region's bytes at [a-b, a-b+n).  (Where several regions
\* hold the range, the bytes of any one of them are accepted.)
C1_ReadInsideOneRegion ==
    \A b \in DOMAIN ram_regions : \A q \in Reads :
        LET a == q[1]
            n == q[2]
        IN (b <= a /\ a + n <= b + Len(ram_regions[b]))
           => \E c \in DOMAIN ram_regions :
                 /\ c <= a /\ a + n <= c + Len(ram_regions[c])
                 /\ DoRead(a, n) = Ok(Slice(ram_regions[c], a - c, n))

\* the concatenation of the slices of the chain of exactly adjacent RAM
\* regions that starts with region b at address a, for n bytes; <<>> when
\* the chain ends before n bytes are covered
RECURSIVE ChainSlices(_, _, _)
ChainSlices(b, a, n) ==
    LET end == b + Len(ram_regions[b]) IN
    IF a + n <= end THEN Slice(ram_regions[b], a - b, n)
    ELSE IF end \in DOMAIN ram_regions /\ Len(ram_regions[end]) > 0
         THEN LET rest == ChainSlices(end, end, n - (end - a)) IN
              IF rest = <<>> THEN <<>>
              ELSE Slice(ram_regions[b], a - b, end - a) \o rest
         ELSE <<>>

\* C2: a read that starts inside one RAM region and runs on into exactly
\* adjacent RAM regions succeeds and returns the concatenation of the
\* per-region slices.
C2_ReadAcrossAdjacentRegions ==
    \A b \in DOMAIN ram_regions : \A q \in Reads :
        LET a == q[1]
            n == q[2]
        IN (Covers(b, a) /\ a + n > b + Len(ram_regions[b])
              /\ ChainSlices(b, a, n) # <<>>)
           => DoRead(a, n) = Ok(ChainSlices(b, a, n))

\* C3: for an address in both a flash region and a RAM region, read(a, 1)
\* returns the byte of a RAM region holding a, never the flash byte.
C3_RamShadowsFlash ==
    \A a \in Addr :
        (InFlash(a) /\ InRam(a))
        => \E b \in DOMAIN ram_regions :
              Covers(b, a) /\ DoRead(a, 1) = Ok(<<RamByte(b, a)>>)

\* C4: in every successful read, each output byte whose address lies in a
\* RAM region is the byte of a RAM region holding that address.
C4_RamWinsOnEveryByte ==
    \A q \in Reads :
        LET r == DoRead(q[1], q[2]) IN
        r.ok => \A i \in 0 .. (q[2] - 1) :
                    InRam(q[1] + i)
                    => \E b \in DOMAIN ram_regions :
                          /\ Covers(b, q[1] + i)
                          /\ r.data[i + 1] = RamByte(b, q[1] + i)

\* C5: a read fails naming the first address of its range that is in no RAM
\* region and in no flash region, if there is one.
C5_FailsAtFirstUnmapped ==
    \A q \in Reads :
        LET a == q[1]
            n == q[2]
            unmapped == {e \in a .. (a + n - 1) : ~Mapped(e)}
        IN unmapped # {}
           => DoRead(a, n) = Err(CHOOSE e \in unmapped :
                                    \A x \in unmapped : e <= x)

\* C6: no two entries of the RAM map overlap.
C6_NoOverlap ==
    \A b1 \in DOMAIN ram_regions : \A b2 \in DOMAIN ram_regions :
        b1 < b2 => b1 + Len(ram_regions[b1]) <= b2

\* the operations a frozen snapshot refuses
FrozenOps == {"write_reg", "write_word_32", "write_8", "halt", "run", "step",
              "reset", "reset_and_halt"}

\* C7: write_reg, write_word_32, write_8, halt, run, step, reset and
\* reset_and_halt always return an error and leave the RAM map, the
\* register map and the flash map unchanged.
C7_FrozenSnapshot ==
    [][ret'.op \in FrozenOps
         => (~ret'.res.ok /\ UNCHANGED <<ram_regions, registers, flash>>)]_vars

\* a refused operation on a core that holds flash, RAM and registers
C7_Witness ==
    /\ ret.op \in FrozenOps
    /\ ram_regions # EmptyMap
    /\ registers # EmptyMap
    /\ flash.regions # EmptyMap

\* C8: read_reg(r) returns the value of the most recent add_register(r, v)
\* and fails exactly when no add_register(r, _) was ever applied.
C8_ReadRegLatest ==
    \A r \in Regs :
        read_reg(registers, r) =
            IF lastAdd[r] = NoVal THEN [ok |-> FALSE, val |-> 0]
            ELSE [ok |-> TRUE, val |-> lastAdd[r]]

\* a register read that succeeded while another register was never captured
C8_Witness ==
    /\ ret.op = "read_reg"
    /\ ret.res.ok
    /\ ret.res.val = lastAdd[ret.arg[1]]
    /\ \E r \in Regs : lastAdd[r] = NoVal

(***************************************************************************)
(* Dump areas of the device and read_dump_headers (lib.rs 732-815).  The   *)
(* agent answers read_dump(i, 0) for area i with the first rsize bytes of  *)
(* the area, or InvalidArea past the last area.                            *)
(***************************************************************************)
DUMPER_NONE == "NONE"
Dumpers == {DUMPER_NONE, "DUMPER"}

\* answers of one area: a reply holding a header (with the task marker
\* parse_dump_header finds behind the segment header table, if any), a reply
\* with a bad magic, or an agent error other than InvalidArea
AreaAnswers ==
    {[resp |-> "ok", dumper |-> d, task |-> t] :
        d \in Dumpers, t \in Tasks \cup {NoTask}}
    \cup {[resp |-> "badmagic", dumper |-> DUMPER_NONE, task |-> NoTask],
          [resp |-> "error", dumper |-> DUMPER_NONE, task |-> NoTask]}
AreaRings == UNION {[1 .. n -> AreaAnswers] : n \in 0 .. MaxAreas}

\* header.written of area i: every area holds its own number of bytes, so
\* that a sum of them tells which areas it is the sum of
AreaWritten(i) == IF i = 0 THEN 4096 ELSE IF i = 1 THEN 3000 ELSE 2 ^ i

\* the (DumpAreaHeader, Option<DumpTask>) pair parse_dump_header returns for
\* area i (0-based): every area has its own base address
parse_dump_header(ring, i) ==
    [header |-> [address |-> i, dumper |-> ring[i + 1].dumper,
                 written |-> AreaWritten(i)],
     task |-> ring[i + 1].task]

\* layout of the packed humpty structs the sanity checks measure against
sizeof_DumpAreaHeader == 24
sizeof_DumpSegment == 17
sizeof_DumpSegmentHeader == 8

\* replies sizes and HIF return-data sizes the archive and the target offer
ReadSizes == {40, 160, 256}
RdataSizes == {256, 512, 768, 1024}

\* the batch size without the headroom for the program itself
chunksize_no_headroom == rdata_size \div rsize

chunksize == (rdata_size \div rsize) - 1

\* the loop over the results of one batch that pushes a header before it
\* looks at its dumper
RECURSIVE scan_results_push_first(_, _, _, _, _)
scan_results_push_first(ring, first, i, acc, isRaw) ==
    IF i >= chunksize THEN [status |-> "continue", rval |-> acc]
    ELSE
      LET area == first + i IN
      IF area >= Len(ring) THEN [status |-> "ok", rval |-> acc]
      ELSE IF ring[area + 1].resp = "error"
           THEN [status |-> "agent", rval |-> acc]
      ELSE IF ring[area + 1].resp = "badmagic"
           THEN [status |-> "parse", rval |-> acc]
      ELSE IF ~isRaw /\ ring[area + 1].dumper = DUMPER_NONE
           THEN [status |-> "ok",
                 rval |-> Append(acc, parse_dump_header(ring, area))]
      ELSE scan_results_push_first(ring, first, i + 1,
                Append(acc, parse_dump_header(ring, area)), isRaw)

\* `for (i, r) in results.iter().enumerate()` over the batch that starts at
\* area `first`, from result i on, with `acc` the headers pushed so far
RECURSIVE scan_results(_, _, _, _, _)
scan_results(ring, first, i, acc, isRaw) ==
    IF i >= chunksize THEN [status |-> "continue", rval |-> acc]
    ELSE
      LET area == first + i IN
      IF area >= Len(ring) THEN [status |-> "ok", rval |-> acc]
      ELSE IF ring[area + 1].resp = "error"
           THEN [status |-> "agent", rval |-> acc]
      ELSE IF ring[area + 1].resp = "badmagic"
           THEN [status |-> "parse", rval |-> acc]
      ELSE IF ~isRaw /\ ring[area + 1].dumper = DUMPER_NONE
           THEN [status |-> "ok", rval |-> acc]
      ELSE scan_results(ring, first, i + 1,
                Append(acc, parse_dump_header(ring, area)), isRaw)

\* entry of read_dump_headers: the sanity checks on the reply size
ReadDumpHeadersStart(isRaw) ==
    /\ hpc = "idle"
    /\ raw' = isRaw
    /\ LET min == sizeof_DumpAreaHeader + sizeof_DumpSegment IN
       IF rsize < min \/ ((rsize - min) \div sizeof_DumpSegmentHeader) < 16
       THEN hpc' = "done" /\ hret' = "config"
       ELSE hpc' = "loop" /\ hret' = "none"
    /\ base' = 0
    /\ rval' = <<>>
    /\ UNCHANGED <<areas, rdata_size, rsize, trips, groups, printed>>
    /\ UNCHANGED coreVars
    /\ UNCHANGED runVars

\* one iteration of the loop: a batch of chunksize read_dump calls sent with
\* one context.run, and the walk over its results
ReadDumpHeadersTrip(runOk) ==
    /\ hpc = "loop"
    /\ trips < MaxTrips
    /\ trips' = trips + 1
    /\ IF ~runOk
       THEN /\ hpc' = "done"
            /\ hret' = "transport"
            /\ UNCHANGED <<base, rval>>
       ELSE LET r == scan_results(areas, base, 0, rval, raw) IN
            /\ rval' = r.rval
            /\ IF r.status = "continue"
               THEN /\ base' = base + chunksize
                    /\ UNCHANGED <<hpc, hret>>
               ELSE /\ hpc' = "done"
                    /\ hret' = r.status
                    /\ UNCHANGED base
    /\ UNCHANGED <<areas, rdata_size, rsize, raw, groups, printed>>
    /\ UNCHANGED coreVars
    /\ UNCHANGED runVars

(***************************************************************************)
(* task_areas (lib.rs 822-862), applied by read_dump and dump_list to the  *)
(* headers a non-raw read_dump_headers returned.                           *)
(***************************************************************************)
\* IndexMap::insert: a new key goes last, a known key keeps its place
insert(map, key, task, hdrs) ==
    IF \E j \in 1 .. Len(map) : map[j].key = key
    THEN [j \in 1 .. Len(map) |->
            IF map[j].key = key
            THEN [key |-> key, task |-> task, headers |-> hdrs] ELSE map[j]]
    ELSE Append(map, [key |-> key, task |-> task, headers |-> hdrs])

\* the loop that opens a new vector of areas at a task marker but forgets
\* to move `current` to it
RECURSIVE task_areas_loop_stale_current(_, _, _, _, _)
task_areas_loop_stale_current(headers, ndx, current, hdrs, map) ==
    IF ndx >= Len(headers)
    THEN insert(map, current, headers[current + 1].task, hdrs)
    ELSE
      LET header == headers[ndx + 1].header
          task == headers[ndx + 1].task
      IN
      IF task = NoTask
      THEN IF header.dumper # DUMPER_NONE
           THEN task_areas_loop_stale_current(headers, ndx + 1, current,
                                              Append(hdrs, header), map)
           ELSE insert(map, current, headers[current + 1].task, hdrs)
      ELSE task_areas_loop_stale_current(headers, ndx + 1, current, <<header>>,
               insert(map, current, headers[current + 1].task, hdrs))

\* `for (ndx, (header, task)) in headers.iter().enumerate().skip(1)` from
\* ndx on, and the final insert
RECURSIVE task_areas_loop(_, _, _, _, _)
task_areas_loop(headers, ndx, current, hdrs, map) ==
    IF ndx >= Len(headers)
    THEN insert(map, current, headers[current + 1].task, hdrs)
    ELSE
      LET header == headers[ndx + 1].header
          task == headers[ndx + 1].task
      IN
      IF task = NoTask
      THEN IF header.dumper # DUMPER_NONE
           THEN task_areas_loop(headers, ndx + 1, current,
                                Append(hdrs, header), map)
           ELSE insert(map, current, headers[current + 1].task, hdrs)
      ELSE task_areas_loop(headers, ndx + 1, ndx, <<header>>,
               insert(map, current, headers[current + 1].task, hdrs))

\* headers[0] panics on an empty slice
task_areas(headers) ==
    IF headers = <<>> THEN [panic |-> TRUE, map |-> <<>>]
    ELSE IF headers[1].task = NoTask THEN [panic |-> FALSE, map |-> <<>>]
    ELSE [panic |-> FALSE,
          map |-> task_areas_loop(headers, 1, 0, <<headers[1].header>>, <<>>)]

\* read_dump (by index) and dump_list group the headers they enumerated
GroupTaskAreas ==
    /\ hpc = "done"
    /\ hret = "ok"
    /\ ~raw
    /\ groups' = task_areas(rval)
    /\ hpc' = "grouped"
    /\ UNCHANGED <<areas, rdata_size, rsize, raw, base, rval, hret, trips,
                   printed>>
    /\ UNCHANGED coreVars
    /\ UNCHANGED runVars

\* lines 1297-1339: dump_list.  The heading row is printed before the
\* headers are enumerated (line 1305); a row is (area, task, size).
Heading == [area |-> NoArea, task |-> "TASK", size |-> 0]

\* `fold(0, |ttl, h| ttl + h.written)` over headers
RECURSIVE fold_written(_)
fold_written(hdrs) ==
    IF hdrs = <<>> THEN 0
    ELSE hdrs[1].written + fold_written(Tail(hdrs))

\* `for (area, (task, headers)) in &areas`: a BTreeMap is walked by key
RECURSIVE btree_iter(_)
btree_iter(map) ==
    IF map = <<>> THEN <<>>
    ELSE LET k == CHOOSE k \in {map[j].key : j \in 1 .. Len(map)} :
                     \A j \in 1 .. Len(map) : k <= map[j].key
         IN SelectSeq(map, LAMBDA e : e.key = k)
            \o btree_iter(SelectSeq(map, LAMBDA e : e.key # k))

\* a <system> row that counts the first area only
system_size_first(headers) == headers[1].header.written

\* lines 1314-1317
system_size(headers) ==
    fold_written(SelectSeq([i \in 1 .. Len(headers) |-> headers[i].header],
                           LAMBDA h : h.dumper # DUMPER_NONE))

\* lines 1309-1336: the rows under the heading
dump_list_rows(headers) ==
    IF headers = <<>> \/ headers[1].header.dumper = DUMPER_NONE THEN <<>>
    ELSE IF headers[1].task = NoTask
    THEN <<[area |-> 0, task |-> "<system>", size |-> system_size(headers)]>>
    ELSE LET walk == btree_iter(task_areas(headers).map) IN
         [j \in 1 .. Len(walk) |->
            [area |-> walk[j].key, task |-> walk[j].task,
             size |-> fold_written(walk[j].headers)]]

\* dump_list once read_dump_headers(.., false) has returned: an error of
\* the enumeration is returned under the heading
DumpList ==
    /\ hpc = "done"
    /\ ~raw
    /\ printed' = <<Heading>>
                  \o (IF hret = "ok" THEN dump_list_rows(rval) ELSE <<>>)
    /\ hpc' = "listed"
    /\ UNCHANGED <<areas, rdata_size, rsize, raw, base, rval, hret, trips,
                   groups>>
    /\ UNCHANGED coreVars
    /\ UNCHANGED runVars

InitAreas ==
    /\ areas \in AreaRings
    /\ rdata_size \in RdataSizes
    /\ rsize \in ReadSizes
    /\ raw = FALSE
    /\ hpc = "idle"
    /\ base = 0
    /\ rval = <<>>
    /\ hret = "none"
    /\ trips = 0
    /\ groups = [panic |-> FALSE, map |-> <<>>]
    /\ printed = <<>>
    /\ flash = [regions |-> EmptyMap, contents |-> <<>>]
    /\ ram_regions = EmptyMap
    /\ registers = EmptyMap
    /\ phase = "new"
    /\ ptask = NoTask
    /\ nrec = 0
    /\ segments = <<>>
    /\ ret = [op |-> "new", arg |-> <<>>, res |-> Res(TRUE)]
    /\ lastAdd = [r \in Regs |-> NoVal]
    /\ subargs = NoArgs
    /\ is_net = FALSE
    /\ opc = "off"
    /\ dtask = NoTask
    /\ sel = NoSel
    /\ header0 = NoHeader
    /\ current_task = NoTask
    /\ picked = NoPick
    /\ halted = FALSE
    /\ timeout = 0
    /\ log = <<>>
    /\ taken = NoProgram
    /\ rcaller = "none"
    /\ dheaders = <<>>
    /\ dbase = 0
    /\ dndx = 0
    /\ offsets = <<>>
    /\ consumed = 0
    /\ pulled = <<>>
    /\ calls = <<>>
    /\ rpc = "off"
    /\ rret = "none"
    /\ processed = <<>>
    /\ dump = NoDump
    /\ dump_offset = 0
    /\ result = "off"

NextAreas ==
    \/ \E isRaw \in BOOLEAN : ReadDumpHeadersStart(isRaw)
    \/ \E runOk \in BOOLEAN : ReadDumpHeadersTrip(runOk)
    \/ GroupTaskAreas
    \/ DumpList

SpecAreas == InitAreas /\ [][NextAreas]_vars

\* index of the first area with dumper == NONE, or the first index the
\* agent answers with InvalidArea
RECURSIVE FirstUnused(_, _)
FirstUnused(ring, k) ==
    IF k >= Len(ring) THEN k
    ELSE IF ring[k + 1].resp = "ok" /\ ring[k + 1].dumper = DUMPER_NONE THEN k
    ELSE FirstUnused(ring, k + 1)

\* every area before the first unused one answers with a header
HeadersWellFormed ==
    \A i \in 0 .. (FirstUnused(areas, 0) - 1) : areas[i + 1].resp = "ok"

\* C9: in non-raw mode read_dump_headers returns exactly the headers of
\* areas 0 .. k-1 in index order, k being the first area with
\* dumper == NONE or the first index answered with InvalidArea.
C9_HeadersUpToFirstUnused ==
    (hpc \in {"done", "grouped"} /\ ~raw /\ hret \notin {"config", "transport"}
       /\ HeadersWellFormed)
    => /\ hret = "ok"
       /\ Len(rval) = FirstUnused(areas, 0)
       /\ \A i \in 0 .. (Len(rval) - 1) :
             rval[i + 1] = parse_dump_header(areas, i)

\* an enumeration over several round trips that stopped at an unused area
\* with further areas behind it
C9_Witness ==
    /\ hpc = "done" /\ ~raw /\ hret = "ok"
    /\ trips >= 2
    /\ Len(rval) >= 2
    /\ Len(rval) < Len(areas)

GroupedAreas ==
    UNION {{groups.map[j].key + m - 1 : m \in 1 .. Len(groups.map[j].headers)} :
             j \in 1 .. Len(groups.map)}

\* the enumerated (hence non-NONE) areas that carry a Task marker or come
\* after an area that carries one
MarkedAreas ==
    {i \in 0 .. (Len(rval) - 1) : \E j \in 0 .. i : rval[j + 1].task # NoTask}

\* C11: the union of the groups returned by task_areas is the set of all
\* non-NONE areas before the first NONE that carry a Task marker or are
\* preceded by one, also when area 0 carries no Task marker.
C11_UnionIsAllMarkedAreas ==
    (hpc = "grouped" /\ ~groups.panic) => GroupedAreas = MarkedAreas

CeilDiv(a, b) == (a + b - 1) \div b

\* C12 as stated: an enumeration of N areas makes
\* ceil(N / ((rdata_size / rsize) - 1)) round trips, N being the number of
\* headers enumerated or the number of areas of the device.
C12_RoundTripsCeil ==
    (hpc \in {"done", "grouped"} /\ hret = "ok")
    => \/ trips = CeilDiv(Len(rval), (rdata_size \div rsize) - 1)
       \/ trips = CeilDiv(Len(areas), (rdata_size \div rsize) - 1)

\* C12 (amended): an enumeration that returns N headers has made
\* floor(N / ((rdata_size / rsize) - 1)) + 1 round trips: the batch that
\* holds the terminating index (the first unused area, or the first index
\* answered with InvalidArea) is requested too.  An enumeration that
\* returns has a batch size of at least one.
C12_RoundTrips ==
    (hpc \in {"done", "grouped"} /\ hret = "ok")
    => /\ (rdata_size \div rsize) - 1 >= 1
       /\ trips = (Len(rval) \div ((rdata_size \div rsize) - 1)) + 1

\* a full last batch: the terminating index is the first of a further batch
C12_Witness ==
    /\ hpc = "done" /\ hret = "ok"
    /\ Len(rval) = 2
    /\ (rdata_size \div rsize) - 1 = 2
    /\ trips = 2

(***************************************************************************)
(* dump_via_agent (lib.rs 1042-1295): one run of the orchestrator, as      *)
(* dumpcmd starts it for the flags the parser accepted.  Every operation   *)
(* on the target core, every program sent to the dump agent and the call   *)
(* of the core file writer is appended to `log` with its outcome.          *)
(***************************************************************************)
MaxRunAreas == 2
\* clap's default_value_t for --timeout, in seconds
DefaultTimeout == 20
\* Duration::new(60, 0)
TakeDumpTimeout == 60

RunTasks == {"T1"}
RunAreas == 0 .. (MaxRunAreas - 1)

\* a parser whose --task is allowed without a simulation flag
parser_accepts_task_alone(a) ==
    LET simulation == a.simulate_dumper \/ a.emulate_dumper IN
    /\ ~(a.simulate_dumper /\ a.emulate_dumper)
    /\ simulation => a.force_dump_agent
    /\ a.dump_agent_status => ~simulation
    /\ a.force_manual_initiation => a.force_dump_agent
    /\ a.force_read => ~simulation
    /\ a.initialize_dump_agent => ~simulation
    /\ a.retain_state => (a.task = NoTask /\ ~a.list /\ a.area = NoArea)
    /\ a.force_overwrite => (~a.initialize_dump_agent /\ ~a.simulate_dumper)
    /\ a.stock_dumpfile => simulation
    /\ a.task # NoTask => ~a.stock_dumpfile
    /\ a.area # NoArea => (a.task = NoTask /\ ~simulation /\ ~a.list)
    /\ a.leave_halted => ~simulation
    /\ a.list => (a.task = NoTask /\ ~simulation /\ a.area = NoArea)

\* a parser whose --area may be combined with --task and a simulation flag
parser_accepts_area_anywhere(a) ==
    LET simulation == a.simulate_dumper \/ a.emulate_dumper IN
    /\ ~(a.simulate_dumper /\ a.emulate_dumper)
    /\ simulation => a.force_dump_agent
    /\ a.dump_agent_status => ~simulation
    /\ a.force_manual_initiation => a.force_dump_agent
    /\ a.force_read => ~simulation
    /\ a.initialize_dump_agent => ~simulation
    /\ a.retain_state => (a.task = NoTask /\ ~a.list /\ a.area = NoArea)
    /\ a.force_overwrite => (~a.initialize_dump_agent /\ ~a.simulate_dumper)
    /\ a.stock_dumpfile => simulation
    /\ a.task # NoTask => (simulation /\ ~a.stock_dumpfile)
    /\ a.area # NoArea => ~a.list
    /\ a.leave_halted => ~simulation
    /\ a.list => (a.task = NoTask /\ ~simulation /\ a.area = NoArea)

\* the clap attributes of DumpArgs: the `simulation` group and the
\* requires / conflicts_with lists
parser_accepts(a) ==
    LET simulation == a.simulate_dumper \/ a.emulate_dumper IN
    /\ ~(a.simulate_dumper /\ a.emulate_dumper)
    /\ simulation => a.force_dump_agent
    /\ a.dump_agent_status => ~simulation
    /\ a.force_manual_initiation => a.force_dump_agent
    /\ a.force_read => ~simulation
    /\ a.initialize_dump_agent => ~simulation
    /\ a.retain_state => (a.task = NoTask /\ ~a.list /\ a.area = NoArea)
    /\ a.force_overwrite => (~a.initialize_dump_agent /\ ~a.simulate_dumper)
    /\ a.stock_dumpfile => simulation
    /\ a.task # NoTask => (simulation /\ ~a.stock_dumpfile)
    /\ a.area # NoArea => (a.task = NoTask /\ ~simulation /\ ~a.list)
    /\ a.leave_halted => ~simulation
    /\ a.list => (a.task = NoTask /\ ~simulation /\ a.area = NoArea)

\* dumpcmd: the flag sets and cores it hands to dump_via_agent
uses_agent(a, net) ==
    /\ ~(a.force_dump_agent /\ net)
    /\ ~a.list
    /\ ~a.dump_agent_status
    /\ net \/ a.force_dump_agent \/ a.force_read \/ a.area # NoArea

DumpArgsSet ==
    [simulate_dumper : BOOLEAN, emulate_dumper : BOOLEAN,
     force_dump_agent : BOOLEAN, force_manual_initiation : BOOLEAN,
     force_read : BOOLEAN, initialize_dump_agent : BOOLEAN,
     retain_state : BOOLEAN, force_overwrite : BOOLEAN,
     stock_dumpfile : BOOLEAN, task : RunTasks \cup {NoTask},
     area : RunAreas \cup {NoArea}, dump_agent_status : BOOLEAN,
     leave_halted : BOOLEAN, list : BOOLEAN]

\* an operation as it is issued now
Op(name, ok) == [op |-> name, ok |-> ok, timeout |-> timeout]

\* the run moves on to `next`, or returns `res`, having issued `entries`
Step(next, res, entries) ==
    /\ opc' = next
    /\ result' = res
    /\ log' = log \o entries

Return(res, entries) == Step("done", res, entries)

coreRest == <<flash, phase, ptask, nrec, ret, lastAdd>>

\* lines 1047-1073: the selector and the task named on the command line
RunStart(outcome) ==
    /\ opc = "start"
    /\ sel' = IF subargs.area = NoArea THEN NoSel
              ELSE [kind |-> "index", at |-> subargs.area]
    /\ IF subargs.task = NoTask
       THEN /\ dtask' = NoTask
            /\ Step(IF subargs.simulate_dumper THEN "sim_halt"
                    ELSE "read_header", "running", <<>>)
       ELSE CASE outcome = "invalid" ->
                   /\ dtask' = NoTask
                   /\ Return("invalid task", <<>>)
              [] outcome = "target" ->
                   /\ dtask' = NoTask
                   /\ Return("target", <<Op("ticks", FALSE)>>)
              [] OTHER ->
                   /\ dtask' = subargs.task
                   /\ Step(IF subargs.simulate_dumper THEN "sim_halt"
                           ELSE "read_header", "running",
                           <<Op("ticks", TRUE)>>)
    /\ UNCHANGED <<parseVars, readVars, taken, subargs, is_net,
                   header0, current_task, picked, halted,
                   timeout>>
    /\ UNCHANGED <<registers, ram_regions, segments, coreRest, areaVars>>

\* line 1081: core.halt()?
SimHalt(ok) ==
    /\ opc = "sim_halt"
    /\ halted' = ok
    /\ IF ok THEN Step("sim_stock", "running", <<Op("halt", TRUE)>>)
       ELSE Return("target", <<Op("halt", FALSE)>>)
    /\ UNCHANGED <<parseVars, readVars, taken, subargs, is_net,
                   dtask, sel, header0, current_task, picked,
                   timeout>>
    /\ UNCHANGED <<registers, ram_regions, segments, coreRest, areaVars>>

\* lines 1084-1086: the stock dump file, written from the halted target
SimStock(ok) ==
    /\ opc = "sim_stock"
    /\ IF ~subargs.stock_dumpfile THEN Step("sim_task", "running", <<>>)
       ELSE IF ok THEN Step("sim_task", "running", <<Op("stock_dump", TRUE)>>)
       ELSE Return("writer", <<Op("stock_dump", FALSE)>>)
    /\ UNCHANGED <<parseVars, readVars, taken, subargs, is_net,
                   dtask, sel, header0, current_task, picked,
                   halted, timeout>>
    /\ UNCHANGED <<registers, ram_regions, segments, coreRest, areaVars>>

\* the order of `for i in 0..=ARMRegister::max()`
RegOrder == <<"R0", "PC">>

\* an interlock that never fires
is_never_running(cur, task) == FALSE

\* lines 1090-1091: the requested task is the one running on the target
is_running(cur, task) == cur = task

\* lines 1088-1105: the interlock for a task dump, the registers for a
\* whole-system one; `good` register reads succeed before one fails
SimTask(cur, targetOk, runOk, good, vals) ==
    /\ opc = "sim_task"
    /\ IF dtask # NoTask
       THEN /\ UNCHANGED registers
            /\ IF ~targetOk
               THEN /\ Return("target", <<Op("current_task", FALSE)>>)
                    /\ UNCHANGED <<current_task, halted>>
               ELSE /\ current_task' = cur
                    /\ IF is_running(cur, dtask)
                       THEN /\ halted' = ~runOk
                            /\ Return(IF runOk
                                      THEN "cannot dump a task while it is running"
                                      ELSE "target",
                                      <<Op("current_task", TRUE),
                                        Op("run", runOk)>>)
                       ELSE /\ Step("sim_segments", "running",
                                    <<Op("current_task", TRUE)>>)
                            /\ UNCHANGED halted
       ELSE /\ registers' =
                  add_registers(registers,
                                {RegOrder[i] : i \in 1 .. good}, vals)
            /\ IF good < Len(RegOrder)
               THEN Return("target",
                           [i \in 1 .. (good + 1) |-> Op("read_reg", i <= good)])
               ELSE Step("sim_segments", "running",
                         [i \in 1 .. good |-> Op("read_reg", TRUE)])
            /\ UNCHANGED <<current_task, halted>>
    /\ UNCHANGED <<parseVars, readVars, taken, subargs, is_net,
                   dtask, sel, header0, picked, timeout>>
    /\ UNCHANGED <<ram_regions, segments, coreRest, areaVars>>

RunSegmentLists == {<<>>, <<<<0, 1>>>>, <<<<0, input_len + 1>>>>}

\* line 1107: hubris.dump_segments reads the task table of the target
SimSegments(ok, segs) ==
    /\ opc = "sim_segments"
    /\ IF ok
       THEN /\ segments' = segs
            /\ Step("sim_chunk", "running", <<Op("dump_segments", TRUE)>>)
       ELSE /\ UNCHANGED segments
            /\ Return("target", <<Op("dump_segments", FALSE)>>)
    /\ UNCHANGED <<parseVars, readVars, taken, subargs, is_net,
                   dtask, sel, header0, current_task, picked,
                   halted, timeout>>
    /\ UNCHANGED <<registers, ram_regions, coreRest, areaVars>>

\* lines 1128-1170: one iteration of `while remain > 0`
SimChunk(outcome) ==
    /\ opc = "sim_chunk"
    /\ segments # <<>>
    /\ LET addr == Head(segments)[1]
           remain == Head(segments)[2]
           nbytes == Min(remain, input_len)
           compare == [i \in 1 .. nbytes |-> 0]
       IN
       CASE outcome = "read" ->
              /\ Return("target", <<Op("read_8", FALSE)>>)
              /\ UNCHANGED <<ram_regions, segments>>
         [] outcome = "overflow" ->
              /\ Return("compression overflow", <<Op("read_8", TRUE)>>)
              /\ UNCHANGED <<ram_regions, segments>>
         [] outcome = "mismatch" ->
              /\ Return("compression/decompression mismatch",
                        <<Op("read_8", TRUE)>>)
              /\ UNCHANGED <<ram_regions, segments>>
         [] OTHER ->
              /\ ram_regions' = add_ram_region(ram_regions, addr, compare)
              /\ segments' = IF remain - nbytes > 0
                             THEN <<<<addr + nbytes, remain - nbytes>>>>
                                  \o Tail(segments)
                             ELSE Tail(segments)
              /\ Step("sim_chunk", "running", <<Op("read_8", TRUE)>>)
    /\ UNCHANGED <<parseVars, readVars, taken, subargs, is_net,
                   dtask, sel, header0, current_task, picked,
                   halted, timeout>>
    /\ UNCHANGED <<registers, coreRest, areaVars>>

\* line 1182: core.run()? once every segment is read
SimResume(ok) ==
    /\ opc = "sim_chunk"
    /\ segments = <<>>
    /\ halted' = ~ok
    /\ IF ok THEN Step("core_file", "running", <<Op("run", TRUE)>>)
       ELSE Return("target", <<Op("run", FALSE)>>)
    /\ UNCHANGED <<parseVars, readVars, taken, subargs, is_net,
                   dtask, sel, header0, current_task, picked,
                   timeout>>
    /\ UNCHANGED <<registers, ram_regions, segments, coreRest, areaVars>>

\* line 1185: read_dump_header, i.e. read_dump_at(0) with a callback that
\* stops at once: a single read_dump(0, 0)
ReadDumpHeader(outcome, d) ==
    /\ opc = "read_header"
    /\ CASE outcome = "transport" ->
              /\ Return("transport", <<Op("read_dump", FALSE)>>)
              /\ UNCHANGED header0
         [] outcome = "agent" ->
              /\ Return("agent", <<Op("read_dump", FALSE)>>)
              /\ UNCHANGED header0
         [] outcome = "parse" ->
              /\ Return("parse", <<Op("read_dump", FALSE)>>)
              /\ UNCHANGED header0
         [] OTHER ->
              /\ header0' = [dumper |-> d]
              /\ Step("init", "running", <<Op("read_dump", TRUE)>>)
    /\ UNCHANGED <<parseVars, readVars, taken, subargs, is_net,
                   dtask, sel, current_task, picked, halted,
                   timeout>>
    /\ UNCHANGED <<registers, ram_regions, segments, coreRest, areaVars>>

\* a refusal that --force-overwrite does not lift
refuses_despite_force(a, hdr, task) ==
    /\ hdr.dumper # DUMPER_NONE
    /\ ~a.initialize_dump_agent
    /\ task = NoTask

\* a refusal that --initialize-dump-agent does not lift
refuses_despite_initialize(a, hdr, task) ==
    /\ hdr.dumper # DUMPER_NONE
    /\ ~a.force_overwrite
    /\ task = NoTask

\* lines 1188-1191: a dump is in situ and nothing allows to drop it
refuses(a, hdr, task) ==
    /\ hdr.dumper # DUMPER_NONE
    /\ ~a.initialize_dump_agent
    /\ ~a.force_overwrite
    /\ task = NoTask

\* a run that reads back without telling the agent to take a dump
AfterInit_no_take(a) ==
    IF a.emulate_dumper THEN "emu_halt"
    ELSE IF ~a.force_read /\ a.area = NoArea
         THEN IF a.force_manual_initiation THEN "manual" ELSE "read_dump"
    ELSE "read_dump"

\* a branch that takes the dump although manual initiation was asked for
AfterInit_ignores_manual(a) ==
    IF a.emulate_dumper THEN "emu_halt"
    ELSE IF ~a.force_read /\ a.area = NoArea THEN "take_dump"
    ELSE "read_dump"

\* lines 1216, 1248, 1249: where the run goes once the agent is initialized
AfterInit(a) ==
    IF a.emulate_dumper THEN "emu_halt"
    ELSE IF ~a.force_read /\ a.area = NoArea
         THEN IF a.force_manual_initiation THEN "manual" ELSE "take_dump"
    ELSE "read_dump"

\* a run that clears the agent before it looks at what the agent holds
InitBlock_initializes_first(ok) ==
    /\ opc = "init"
    /\ IF subargs.force_read \/ subargs.area # NoArea
       THEN Step(AfterInit(subargs), "running", <<>>)
       ELSE IF refuses(subargs, header0, dtask)
       THEN Return("refused: --list, --initialize-dump-agent, --force-overwrite",
                   <<Op("initialize_dump", ok)>>)
       ELSE IF dtask = NoTask \/ subargs.initialize_dump_agent
       THEN IF ~ok
            THEN Return("agent", <<Op("initialize_dump", FALSE)>>)
            ELSE IF subargs.initialize_dump_agent
            THEN Return("ok", <<Op("initialize_dump", TRUE)>>)
            ELSE IF dtask = NoTask
            THEN Step("init_segments", "running",
                      <<Op("initialize_dump", TRUE)>>)
            ELSE Step(AfterInit(subargs), "running",
                      <<Op("initialize_dump", TRUE)>>)
       ELSE Step(AfterInit(subargs), "running", <<>>)
    /\ UNCHANGED <<parseVars, readVars, taken, subargs, is_net,
                   dtask, sel, header0, current_task, picked,
                   halted, timeout>>
    /\ UNCHANGED <<registers, ram_regions, segments, coreRest, areaVars>>

\* lines 1187-1210: the refusal to overwrite, and initialize_dump
InitBlock(ok) ==
    /\ opc = "init"
    /\ IF subargs.force_read \/ subargs.area # NoArea
       THEN Step(AfterInit(subargs), "running", <<>>)
       ELSE IF refuses(subargs, header0, dtask)
       THEN Return("refused: --list, --initialize-dump-agent, --force-overwrite",
                   <<>>)
       ELSE IF dtask = NoTask \/ subargs.initialize_dump_agent
       THEN IF ~ok
            THEN Return("agent", <<Op("initialize_dump", FALSE)>>)
            ELSE IF subargs.initialize_dump_agent
            THEN Return("ok", <<Op("initialize_dump", TRUE)>>)
            ELSE IF dtask = NoTask
            THEN Step("init_segments", "running",
                      <<Op("initialize_dump", TRUE)>>)
            ELSE Step(AfterInit(subargs), "running",
                      <<Op("initialize_dump", TRUE)>>)
       ELSE Step(AfterInit(subargs), "running", <<>>)
    /\ UNCHANGED <<parseVars, readVars, taken, subargs, is_net,
                   dtask, sel, header0, current_task, picked,
                   halted, timeout>>
    /\ UNCHANGED <<registers, ram_regions, segments, coreRest, areaVars>>

\* lines 1210-1213 and 350-385: initialize_segments, one program holding an
\* add_dump_segment call per segment of the whole system
InitializeSegments(targetOk, ok) ==
    /\ opc = "init_segments"
    /\ IF ~targetOk
       THEN Return("target", <<Op("dump_segments", FALSE)>>)
       ELSE IF ~ok
       THEN Return("agent", <<Op("dump_segments", TRUE),
                              Op("add_dump_segment", FALSE)>>)
       ELSE Step(AfterInit(subargs), "running",
                 <<Op("dump_segments", TRUE), Op("add_dump_segment", TRUE)>>)
    /\ UNCHANGED <<parseVars, readVars, taken, subargs, is_net,
                   dtask, sel, header0, current_task, picked,
                   halted, timeout>>
    /\ UNCHANGED <<registers, ram_regions, segments, coreRest, areaVars>>

\* line 1217: core.halt()? of the emulated dumper
EmulateHalt(ok) ==
    /\ opc = "emu_halt"
    /\ halted' = ok
    /\ IF ok THEN Step("emu_stock", "running", <<Op("halt", TRUE)>>)
       ELSE Return("target", <<Op("halt", FALSE)>>)
    /\ UNCHANGED <<parseVars, readVars, taken, subargs, is_net,
                   dtask, sel, header0, current_task, picked,
                   timeout>>
    /\ UNCHANGED <<registers, ram_regions, segments, coreRest, areaVars>>

\* lines 1220-1222
EmulateStock(ok) ==
    /\ opc = "emu_stock"
    /\ IF ~subargs.stock_dumpfile THEN Step("emu_prep", "running", <<>>)
       ELSE IF ok THEN Step("emu_prep", "running", <<Op("stock_dump", TRUE)>>)
       ELSE Return("writer", <<Op("stock_dump", FALSE)>>)
    /\ UNCHANGED <<parseVars, readVars, taken, subargs, is_net,
                   dtask, sel, header0, current_task, picked,
                   halted, timeout>>
    /\ UNCHANGED <<registers, ram_regions, segments, coreRest, areaVars>>

\* the segment lists hubris.dump_segments returns in the emulate branch
EmuSegmentLists == {<<>>, <<<<0, 1>>>>, <<<<0, 1>>, <<1, 1>>>>}

\* lines 472-486: one add_dump_segment_header per segment, `good` of them
\* written before one fails
segment_headers(segs, good) ==
    [i \in 1 .. (IF good < Len(segs) THEN good + 1 ELSE good) |->
        Op("add_dump_segment_header", i <= good)]

\* line 1238: the panic of assert!(area.is_none())
AssertMsg == "assertion failed: area.is_none()"

\* lines 1224-1243 and 447-490: the segments of the dump and, for a task
\* dump, the area claimed for it and the segment headers written into it;
\* the selector given on the command line must be unset by then
EmulatePrep(targetOk, outcome, address, runOk, segs, good) ==
    /\ opc = "emu_prep"
    /\ good <= Len(segs)
    /\ IF ~targetOk
       THEN /\ Return("target", <<Op("dump_segments", FALSE)>>)
            /\ UNCHANGED <<sel, halted, segments>>
       ELSE IF dtask = NoTask
       THEN /\ segments' = segs
            /\ Step("emu_dump", "running", <<Op("dump_segments", TRUE)>>)
            /\ UNCHANGED <<sel, halted>>
       ELSE /\ segments' = segs
            /\ CASE outcome \in {"claim", "none"} ->
                   /\ halted' = ~runOk
                   /\ Return(IF ~runOk THEN "target"
                             ELSE IF outcome = "claim"
                             THEN "dump area allocation failed"
                             ELSE "no dump area is available",
                             <<Op("dump_segments", TRUE),
                               Op("claim_dump_area", outcome = "none"),
                               Op("run", runOk)>>)
                   /\ UNCHANGED sel
              [] good < Len(segs) ->
                   /\ halted' = ~runOk
                   /\ Return(IF ~runOk THEN "target"
                             ELSE "adding segment failed",
                             <<Op("dump_segments", TRUE),
                               Op("claim_dump_area", TRUE)>>
                             \o segment_headers(segs, good)
                             \o <<Op("run", runOk)>>)
                   /\ UNCHANGED sel
              [] sel # NoSel ->
                   /\ Return(AssertMsg,
                             <<Op("dump_segments", TRUE),
                               Op("claim_dump_area", TRUE)>>
                             \o segment_headers(segs, good))
                   /\ UNCHANGED <<sel, halted>>
              [] OTHER ->
                   /\ sel' = [kind |-> "address", at |-> address]
                   /\ Step("emu_dump", "running",
                           <<Op("dump_segments", TRUE),
                             Op("claim_dump_area", TRUE)>>
                           \o segment_headers(segs, good))
                   /\ UNCHANGED halted
    /\ UNCHANGED <<parseVars, readVars, taken, subargs, is_net,
                   dtask, header0, current_task, picked,
                   timeout>>
    /\ UNCHANGED <<registers, ram_regions, coreRest, areaVars>>

\* lines 1245-1247: the dumper loop run on the host, then core.run()?
EmulateDump(ok, runOk) ==
    /\ opc = "emu_dump"
    /\ IF ~ok
       THEN /\ Return("dump failed", <<Op("emulate_dump", FALSE)>>)
            /\ UNCHANGED halted
       ELSE /\ halted' = ~runOk
            /\ IF runOk
               THEN Step("read_dump", "running",
                         <<Op("emulate_dump", TRUE), Op("run", TRUE)>>)
               ELSE Return("target",
                           <<Op("emulate_dump", TRUE), Op("run", FALSE)>>)
    /\ UNCHANGED <<parseVars, readVars, taken, subargs, is_net,
                   dtask, sel, header0, current_task, picked,
                   timeout>>
    /\ UNCHANGED <<registers, ram_regions, segments, coreRest, areaVars>>

\* lines 1249-1264: the core is halted and left to the operator
ManualInitiation(ok) ==
    /\ opc = "manual"
    /\ halted' = ok
    /\ IF ok THEN Return("ok", <<Op("halt", TRUE)>>)
       ELSE Return("target", <<Op("halt", FALSE)>>)
    /\ UNCHANGED <<parseVars, readVars, taken, subargs, is_net,
                   dtask, sel, header0, current_task, picked,
                   timeout>>
    /\ UNCHANGED <<registers, ram_regions, segments, coreRest, areaVars>>

\* lines 526-527: the arguments of the wait take_dump programs
ms == 100
iter == 100

\* one operation of a HIF program: its opcode, its operand, and for a Call
\* the function it calls
Ins(op, arg, fn) == [op |-> op, arg |-> arg, fn |-> fn]

\* lines 507-550: the program take_dump sends.  idol_call_ops appends the
\* call of DumpAgent.take_dump, which leaves one result.
take_dump_ops(net) ==
    (IF ~net
     THEN <<Ins("Push", 0, ""),                \* iterations completed
            Ins("Push", 0, ""),                \* dummy comparison value
            Ins("Label", 0, ""),               \* start of loop
            Ins("Drop", 0, ""),                \* drop comparison
            Ins("Push", ms, ""),               \* push arg for 100ms
            Ins("Call", 0, "Sleep"),           \* sleep for 100ms
            Ins("Drop", 0, ""),                \* drop arg
            Ins("Push", 1, ""),                \* push increment value
            Ins("Add", 0, ""),                 \* add to iterations
            Ins("Push", iter, ""),             \* push limit
            Ins("BranchGreaterThan", 0, "")>>  \* continue if not at limit
     ELSE <<>>)
    \o <<Ins("Call", 0, "DumpAgent.take_dump"), Ins("Done", 0, "")>>

\* a result slot that is read where the program left none
rindex_zero(net) == 0

\* lines 507, 543 and 546: the result slot take_dump checks
rindex(net) == IF ~net THEN iter ELSE 0

Pop(stack) == SubSeq(stack, 1, Len(stack) - 1)
Top(stack) == stack[Len(stack)]
LabelAt(ops, t) ==
    CHOOSE i \in 1 .. Len(ops) : ops[i].op = "Label" /\ ops[i].arg = t

\* line 552: context.run executes the program on the device.  One step of
\* the machine: every Call leaves one result, in the order the calls are
\* made; a branch compares the two topmost values and leaves them on the
\* stack; Done stops the machine.
execute_op(ops, st, reply) ==
    LET ins == ops[st.pc]
        stack == st.stack
    IN
    IF ins.op = "Done" THEN st
    ELSE IF ins.op = "Push"
    THEN [st EXCEPT !.pc = @ + 1, !.stack = Append(stack, ins.arg)]
    ELSE IF ins.op = "Drop"
    THEN [st EXCEPT !.pc = @ + 1, !.stack = Pop(stack)]
    ELSE IF ins.op = "Add"
    THEN [st EXCEPT !.pc = @ + 1,
                    !.stack = Append(Pop(Pop(stack)),
                                     Top(Pop(stack)) + Top(stack))]
    ELSE IF ins.op = "Call"
    THEN [st EXCEPT !.pc = @ + 1,
                    !.results =
                        Append(@, IF ins.fn = "Sleep"
                                  THEN [fn |-> ins.fn, arg |-> Top(stack),
                                        ok |-> TRUE]
                                  ELSE [fn |-> ins.fn, arg |-> 0,
                                        ok |-> reply])]
    ELSE IF ins.op = "BranchGreaterThan" /\ Top(stack) > Top(Pop(stack))
    THEN [st EXCEPT !.pc = LabelAt(ops, ins.arg)]
    ELSE [st EXCEPT !.pc = @ + 1]

\* n steps of the machine
RECURSIVE steps(_, _, _, _)
steps(ops, st, reply, n) ==
    IF n = 0 THEN st
    ELSE IF n = 1 THEN execute_op(ops, st, reply)
    ELSE LET half == steps(ops, st, reply, n \div 2)
         IN IF ops[half.pc].op = "Done" THEN half
            ELSE steps(ops, half, reply, n - (n \div 2))

\* the results of a program whose one loop runs at most iter times
execute(ops, reply) ==
    steps(ops, [pc |-> 1, stack |-> <<>>, results |-> <<>>], reply,
          Len(ops) * (iter + 1)).results

\* lines 1269 and 492-559: take_dump sets the timeout of the core, sends
\* the program that calls DumpAgent.take_dump and checks one result of it
TakeDump(runOk, ok) ==
    /\ opc = "take_dump"
    /\ timeout' = TakeDumpTimeout
    /\ LET results == IF runOk
                      THEN execute(take_dump_ops(is_net), ok)
                      ELSE <<>>
           r == rindex(is_net)
           issued(good) == [op |-> "take_dump", ok |-> good,
                            timeout |-> TakeDumpTimeout]
       IN /\ taken' = [rindex |-> r, results |-> results]
          /\ IF ~runOk THEN Return("transport", <<issued(FALSE)>>)
             ELSE IF r + 1 > Len(results)
             THEN Return("panic", <<issued(TRUE)>>)
             ELSE IF ~results[r + 1].ok
             THEN Return("agent", <<issued(FALSE)>>)
             ELSE Step("read_dump", "running", <<issued(TRUE)>>)
    /\ UNCHANGED <<parseVars, readVars, subargs, is_net, dtask, sel, header0,
                   current_task, picked, halted>>
    /\ UNCHANGED <<registers, ram_regions, segments, coreRest, areaVars>>

\* what the areas of the device answer once the run reads them back
RunAnswers ==
    {[resp |-> "ok", dumper |-> d, task |-> t] :
        d \in Dumpers, t \in RunTasks \cup {NoTask}}
    \cup {[resp |-> "error", dumper |-> DUMPER_NONE, task |-> NoTask]}
RunRings == UNION {[1 .. n -> RunAnswers] : n \in 0 .. MaxRunAreas}

\* line 1275 and 971: read_dump starts with read_dump_headers(.., false) on
\* the areas as they are by now
ReadDumpCall(ring) ==
    /\ opc = "read_dump"
    /\ hpc = "off"
    /\ areas' = ring
    /\ hpc' = "idle"
    /\ Step("headers", "running", <<>>)
    /\ UNCHANGED <<rdata_size, rsize, raw, base, rval, hret, trips, groups,
                   printed>>
    /\ UNCHANGED <<parseVars, readVars, taken, subargs, is_net,
                   dtask, sel, header0, current_task, picked,
                   halted, timeout>>
    /\ UNCHANGED <<registers, ram_regions, segments, coreRest>>

\* lines 973-982: the selector as an index into the enumerated headers
area_index(all, s) ==
    IF s.kind = "none" THEN NoArea
    ELSE IF s.kind = "index" THEN s.at
    ELSE LET found == {ndx \in 0 .. (Len(all) - 1) :
                          all[ndx + 1].header.address = s.at}
         IN IF found = {} THEN NoArea
            ELSE CHOOSE ndx \in found : \A other \in found : ndx <= other

\* lines 984-1006: the (base, headers, task) of the dump to read
read_dump_select(all, s) ==
    LET area == area_index(all, s) IN
    IF all = <<>>
    THEN [status |-> "panic", base |-> 0, n |-> 0, task |-> NoTask]
    ELSE IF area \in {NoArea, 0} /\ all[1].task = NoTask
    THEN [status |-> "ok", base |-> 0, n |-> Len(all), task |-> NoTask]
    ELSE IF area # NoArea
    THEN LET map == task_areas(all).map
             hit == {j \in 1 .. Len(map) : map[j].key = area}
         IN IF hit = {}
            THEN [status |-> "area is invalid", base |-> 0, n |-> 0,
                  task |-> NoTask]
            ELSE LET g == map[CHOOSE j \in hit : TRUE] IN
                 [status |-> "ok", base |-> area, n |-> Len(g.headers),
                  task |-> g.task]
    ELSE [status |-> "area must be explicitly specified", base |-> 0,
          n |-> 0, task |-> NoTask]

\* lines 970-1007: read_dump_headers has returned
ReadDumpResolve ==
    /\ opc = "headers"
    /\ hpc = "done"
    /\ LET issued == IF trips > 0
                     THEN <<Op("read_dump_headers", hret = "ok")>> ELSE <<>>
           r == read_dump_select(rval, sel)
       IN
       IF hret # "ok"
       THEN /\ Return(hret, issued)
            /\ UNCHANGED picked
       ELSE IF r.status # "ok"
       THEN /\ Return(r.status, issued)
            /\ UNCHANGED picked
       ELSE /\ picked' = [base |-> r.base, n |-> r.n, task |-> r.task]
            /\ Step("read_areas", "running", issued)
    /\ UNCHANGED <<parseVars, readVars, taken, subargs, is_net,
                   dtask, sel, header0, current_task, halted,
                   timeout>>
    /\ UNCHANGED <<registers, ram_regions, segments, coreRest, areaVars>>

\* lines 1018-1024: read_dump_at for each header of the dump, `good` of them
\* read before one fails
ReadAreas(good) ==
    /\ opc = "read_areas"
    /\ good <= picked.n
    /\ IF good < picked.n
       THEN Return("agent",
                   [i \in 1 .. (good + 1) |-> Op("read_dump_at", i <= good)])
       ELSE Step("process", "running",
                 [i \in 1 .. good |-> Op("read_dump_at", TRUE)])
    /\ UNCHANGED <<parseVars, readVars, taken, subargs, is_net,
                   dtask, sel, header0, current_task, picked,
                   halted, timeout>>
    /\ UNCHANGED <<registers, ram_regions, segments, coreRest, areaVars>>

\* lines 1037-1039 and 1275: process_dump on what was read, and the task of
\* the dump assigned to `task`
ProcessDump(ok) ==
    /\ opc = "process"
    /\ IF ok
       THEN /\ dtask' = picked.task
            /\ Step("core_file", "running", <<>>)
       ELSE /\ UNCHANGED dtask
            /\ Return("process_dump", <<>>)
    /\ UNCHANGED <<parseVars, readVars, taken, subargs, is_net,
                   sel, header0, current_task, picked,
                   halted, timeout>>
    /\ UNCHANGED <<registers, ram_regions, segments, coreRest, areaVars>>

\* a run that goes on to reset the agent although the core file failed
CoreFile_ignores_failure(ok) ==
    /\ opc = "core_file"
    /\ IF ok THEN Step("reinit", "running", <<Op("core_file", TRUE)>>)
       ELSE Step("reinit", "running", <<Op("core_file", FALSE)>>)
    /\ UNCHANGED <<parseVars, readVars, taken, subargs, is_net,
                   dtask, sel, header0, current_task, picked,
                   halted, timeout>>
    /\ UNCHANGED <<registers, ram_regions, segments, coreRest, areaVars>>

\* line 1278: hubris.dump(&mut agent, task, dumpfile, started)?
CoreFile(ok) ==
    /\ opc = "core_file"
    /\ IF ok THEN Step("reinit", "running", <<Op("core_file", TRUE)>>)
       ELSE Return("writer", <<Op("core_file", FALSE)>>)
    /\ UNCHANGED <<parseVars, readVars, taken, subargs, is_net,
                   dtask, sel, header0, current_task, picked,
                   halted, timeout>>
    /\ UNCHANGED <<registers, ram_regions, segments, coreRest, areaVars>>

\* a reset of the agent that ignores --retain-state
reinitializes_always(a, task) == task = NoTask

\* lines 1285-1286
reinitializes(a, task) == task = NoTask /\ ~a.retain_state

\* lines 1285-1294: the agent is reset after a whole-system dump
Reinitialize(ok) ==
    /\ opc = "reinit"
    /\ IF reinitializes(subargs, dtask)
       THEN Return(IF ok THEN "ok" ELSE "agent",
                   <<Op("initialize_dump", ok)>>)
       ELSE Return("ok", <<>>)
    /\ UNCHANGED <<parseVars, readVars, taken, subargs, is_net,
                   dtask, sel, header0, current_task, picked,
                   halted, timeout>>
    /\ UNCHANGED <<registers, ram_regions, segments, coreRest, areaVars>>

InitRun ==
    /\ subargs \in DumpArgsSet
    /\ parser_accepts(subargs)
    /\ is_net \in BOOLEAN
    /\ uses_agent(subargs, is_net)
    /\ opc = "start"
    /\ dtask = NoTask
    /\ sel = NoSel
    /\ header0 = NoHeader
    /\ current_task = NoTask
    /\ picked = NoPick
    /\ halted = FALSE
    /\ timeout = DefaultTimeout
    /\ log = <<>>
    /\ taken = NoProgram
    /\ rcaller = "none"
    /\ dheaders = <<>>
    /\ dbase = 0
    /\ dndx = 0
    /\ offsets = <<>>
    /\ consumed = 0
    /\ pulled = <<>>
    /\ calls = <<>>
    /\ rpc = "off"
    /\ rret = "none"
    /\ processed = <<>>
    /\ dump = NoDump
    /\ dump_offset = 0
    /\ result = "running"
    /\ areas = <<>>
    /\ rdata_size = Max(RdataSizes)
    /\ rsize \in ReadSizes
    /\ raw = FALSE
    /\ hpc = "off"
    /\ base = 0
    /\ rval = <<>>
    /\ hret = "none"
    /\ trips = 0
    /\ groups = [panic |-> FALSE, map |-> <<>>]
    /\ printed = <<>>
    /\ flash = [regions |-> EmptyMap, contents |-> <<>>]
    /\ ram_regions = EmptyMap
    /\ registers = EmptyMap
    /\ phase = "new"
    /\ ptask = NoTask
    /\ nrec = 0
    /\ segments = <<>>
    /\ ret = [op |-> "new", arg |-> <<>>, res |-> Res(TRUE)]
    /\ lastAdd = [r \in Regs |-> NoVal]

NextRun ==
    \/ \E outcome \in {"ok", "invalid", "target"} : RunStart(outcome)
    \/ \E ok \in BOOLEAN : SimHalt(ok)
    \/ \E ok \in BOOLEAN : SimStock(ok)
    \/ \E cur \in Tasks, targetOk \in BOOLEAN, runOk \in BOOLEAN,
          good \in 0 .. Len(RegOrder), vals \in [Regs -> {1}] :
          SimTask(cur, targetOk, runOk, good, vals)
    \/ \E ok \in BOOLEAN, segs \in RunSegmentLists : SimSegments(ok, segs)
    \/ \E outcome \in {"ok", "read", "overflow", "mismatch"} : SimChunk(outcome)
    \/ \E ok \in BOOLEAN : SimResume(ok)
    \/ \E outcome \in {"ok", "transport", "agent", "parse"}, d \in Dumpers :
          ReadDumpHeader(outcome, d)
    \/ \E ok \in BOOLEAN : InitBlock(ok)
    \/ \E targetOk \in BOOLEAN, ok \in BOOLEAN : InitializeSegments(targetOk, ok)
    \/ \E ok \in BOOLEAN : EmulateHalt(ok)
    \/ \E ok \in BOOLEAN : EmulateStock(ok)
    \/ \E targetOk \in BOOLEAN, outcome \in {"ok", "claim", "none"},
          address \in 0 .. MaxRunAreas, runOk \in BOOLEAN,
          segs \in EmuSegmentLists, good \in 0 .. 2 :
          EmulatePrep(targetOk, outcome, address, runOk, segs, good)
    \/ \E ok \in BOOLEAN, runOk \in BOOLEAN : EmulateDump(ok, runOk)
    \/ \E ok \in BOOLEAN : ManualInitiation(ok)
    \/ \E runOk \in BOOLEAN, ok \in BOOLEAN : TakeDump(runOk, ok)
    \/ \E ring \in RunRings : ReadDumpCall(ring)
    \/ ReadDumpHeadersStart(FALSE)
    \/ \E runOk \in BOOLEAN : ReadDumpHeadersTrip(runOk)
    \/ ReadDumpResolve
    \/ \E good \in 0 .. MaxRunAreas : ReadAreas(good)
    \/ \E ok \in BOOLEAN : ProcessDump(ok)
    \/ \E ok \in BOOLEAN : CoreFile(ok)
    \/ \E ok \in BOOLEAN : Reinitialize(ok)

SpecRun == InitRun /\ [][NextRun]_vars

(***************************************************************************)
(* Properties of a run of dump_via_agent                                   *)
(***************************************************************************)
AgentOps == {"read_dump", "initialize_dump", "add_dump_segment", "take_dump",
             "read_dump_headers", "read_dump_at"}
ReadBackOps == {"read_dump_headers", "read_dump_at"}
LogHas(name) == \E i \in 1 .. Len(log) : log[i].op = name
AllButLastOk == \A i \in 1 .. (Len(log) - 1) : log[i].ok

\* a sanity check of read_dump_headers (lib.rs 750-763) fails for rsize
GateFails ==
    \/ rsize < sizeof_DumpAreaHeader + sizeof_DumpSegment
    \/ ((rsize - (sizeof_DumpAreaHeader + sizeof_DumpSegment))
           \div sizeof_DumpSegmentHeader) < 16

\* C13: in every agent-path run where a sanity gate fails, no agent
\* operation (read_dump, initialize_dump, add_dump_segment, take_dump) is
\* ever issued to the device, and the run ends with the fatal configuration
\* error (or with an error of the command line or the target met before the
\* first agent operation).
C13_GatesAtConstruction ==
    (~subargs.simulate_dumper /\ GateFails /\ result # "off")
    => /\ \A i \in 1 .. Len(log) : log[i].op \notin AgentOps
       /\ trips = 0
       /\ opc = "done" => result \in {"config", "invalid task", "target"}

RefusedMsg == "refused: --list, --initialize-dump-agent, --force-overwrite"

\* C14: in the agent path without simulate, force_read or area, once area
\* 0's header is read, the run fails with the one error that names --list,
\* --initialize-dump-agent and --force-overwrite exactly if the header's
\* dumper is not NONE and none of force_overwrite, initialize_dump_agent
\* and task is given; no other run fails with that error.
C14_OverwriteRefusal ==
    LET inCase == /\ ~subargs.simulate_dumper
                  /\ ~subargs.force_read
                  /\ subargs.area = NoArea
                  /\ header0 # NoHeader
        mustRefuse == /\ header0.dumper # DUMPER_NONE
                      /\ ~subargs.force_overwrite
                      /\ ~subargs.initialize_dump_agent
                      /\ subargs.task = NoTask
    IN /\ (inCase /\ opc # "init") => (result = RefusedMsg <=> mustRefuse)
       /\ result = RefusedMsg
            => (inCase /\ mustRefuse /\ opc = "done"
                /\ log = <<[op |-> "read_dump", ok |-> TRUE,
                            timeout |-> DefaultTimeout]>>)

C14_Witness ==
    /\ result = RefusedMsg
    /\ subargs.force_manual_initiation
    /\ ~is_net

DefaultBranch ==
    /\ result # "off"
    /\ ~subargs.simulate_dumper
    /\ ~subargs.emulate_dumper
    /\ ~subargs.force_read
    /\ subargs.area = NoArea

\* the step of the default branch that entry i of the log belongs to
Stage(i) ==
    CASE log[i].op = "read_dump" -> 0
      [] log[i].op = "initialize_dump" ->
            IF \E j \in 1 .. (i - 1) : log[j].op = "core_file" THEN 6 ELSE 1
      [] log[i].op \in {"dump_segments", "add_dump_segment"} -> 2
      [] log[i].op \in {"take_dump", "halt"} -> 3
      [] log[i].op \in ReadBackOps -> 4
      [] log[i].op = "core_file" -> 5
      [] OTHER -> 7

\* C15: in the default branch the device operations are issued in the order
\* initialize_dump, initialize_segments, take_dump, read-back, each at most
\* once and each only after the one before it succeeded; read-back is never
\* issued without a take_dump before it; and every run that is not refused
\* and not told to stop early (initialize_dump_agent,
\* force_manual_initiation) issues take_dump unless an earlier operation
\* failed, in particular a default invocation on an empty ring.
C15_DefaultOrder ==
    DefaultBranch
    => /\ \A i \in 1 .. Len(log) : \A j \in 1 .. Len(log) :
             i < j => /\ Stage(i) <= Stage(j)
                      /\ Stage(i) \in {1, 2, 3} /\ log[i].op # "dump_segments"
                           => Stage(i) < Stage(j)
       /\ \A i \in 1 .. Len(log) : Stage(i) <= 6
       /\ AllButLastOk
       /\ (trips > 0 \/ \E i \in 1 .. Len(log) : log[i].op \in ReadBackOps)
             => LogHas("take_dump")
       /\ LogHas("take_dump")
             => (LogHas("initialize_dump") /\ LogHas("add_dump_segment"))
       /\ (/\ opc = "done"
           /\ result # RefusedMsg
           /\ ~subargs.initialize_dump_agent
           /\ ~subargs.force_manual_initiation
           /\ log # <<>>
           /\ log[Len(log)].ok)
             => LogHas("take_dump")

\* a default invocation on an empty ring that took a dump and read it back
C15_Witness ==
    /\ DefaultBranch
    /\ ~subargs.force_overwrite
    /\ header0 = [dumper |-> DUMPER_NONE]
    /\ result = "ok"
    /\ LogHas("take_dump")
    /\ LogHas("read_dump_at")
    /\ LogHas("core_file")

InitsAfterCoreFile ==
    {i \in 1 .. Len(log) :
        /\ log[i].op = "initialize_dump"
        /\ \E j \in 1 .. (i - 1) : log[j].op = "core_file"}

\* read_dump returned no task and the core file was written
WholeReadBack ==
    /\ ~subargs.simulate_dumper
    /\ picked # NoPick
    /\ dtask = NoTask
    /\ \E i \in 1 .. Len(log) : log[i].op = "core_file" /\ log[i].ok

\* C16: after a whole-system read-back completed, the run issues
\* initialize_dump exactly once more if retain_state is not set, and no
\* initialize_dump after the read-back if it is set.
C16_ReinitUnlessRetained ==
    (opc = "done" /\ WholeReadBack)
    => Cardinality(InitsAfterCoreFile) = IF subargs.retain_state THEN 0 ELSE 1

C16_Witness ==
    /\ opc = "done"
    /\ WholeReadBack
    /\ subargs.retain_state
    /\ result = "ok"
    /\ LogHas("take_dump")

Interlock ==
    /\ subargs.simulate_dumper
    /\ dtask # NoTask
    /\ current_task = dtask

\* C18: in simulate mode, if the requested task is the one running on the
\* target, the run has ended: the core was resumed with run after the halt,
\* the error is the cannot-dump-a-running-task one (the error of run, if
\* run itself failed), no register and no RAM segment was read from the
\* target and the virtual core holds no RAM region and no register.
C18_RunningTaskInterlock ==
    Interlock
    => /\ opc = "done"
       /\ Len(log) >= 2
       /\ log[Len(log)].op = "run"
       /\ \E i \in 1 .. (Len(log) - 1) : log[i].op = "halt" /\ log[i].ok
       /\ IF log[Len(log)].ok
          THEN result = "cannot dump a task while it is running" /\ ~halted
          ELSE result = "target"
       /\ \A i \in 1 .. Len(log) :
             log[i].op \notin {"read_8", "read_reg", "dump_segments"}
       /\ ram_regions = EmptyMap
       /\ registers = EmptyMap

C18_Witness ==
    /\ Interlock
    /\ result = "cannot dump a task while it is running"
    /\ ~halted

\* the errors of the steps that follow a halt: a read of the target, the
\* compression round trip, the claim of an area, the write of a segment
\* header, the dumper loop
StepErrors ==
    {"target", "compression overflow", "compression/decompression mismatch",
     "dump area allocation failed", "no dump area is available",
     "adding segment failed", "dump failed"}

\* C19: no failing run leaves the core halted: whenever the run halted the
\* core and then returns an error, it has issued core.run after the halt.
C19_ResumeOnError ==
    (opc = "done" /\ result \in StepErrors)
    => \A i \in 1 .. Len(log) :
          (log[i].op = "halt" /\ log[i].ok)
          => \E j \in (i + 1) .. Len(log) : log[j].op = "run"

\* C20: take_dump runs under the 60 second timeout, and once it has
\* returned the timeout is back at the configured default, for every later
\* agent operation of the run.
C20_TimeoutRestored ==
    \A i \in 1 .. Len(log) :
       log[i].op = "take_dump"
       => /\ log[i].timeout = TakeDumpTimeout
          /\ \A j \in (i + 1) .. Len(log) :
                log[j].op \in AgentOps => log[j].timeout = DefaultTimeout


\* the position, among the results of the program take_dump ran, of the
\* result of the call of DumpAgent.take_dump
TakeDumpSlot ==
    CHOOSE k \in 1 .. Len(taken.results) :
        taken.results[k].fn = "DumpAgent.take_dump"

\* C21: the result slot take_dump checks is the slot of the take_dump Call:
\* on a non-network core the program executes exactly 100 Sleep calls of
\* 100 ms before that Call and the checked slot is index 100; on a network
\* core the program executes no Sleep call and the checked slot is index 0.
C21_CheckedSlot ==
    taken.results # <<>>
    => /\ \E k \in 1 .. Len(taken.results) :
             taken.results[k].fn = "DumpAgent.take_dump"
       /\ taken.rindex = TakeDumpSlot - 1
       /\ \A i \in 1 .. Len(taken.results) :
             i # TakeDumpSlot
             => /\ i < TakeDumpSlot
                /\ taken.results[i].fn = "Sleep"
                /\ taken.results[i].arg = 100
       /\ is_net => taken.rindex = 0
       /\ ~is_net => taken.rindex = 100

\* a probe-attached run whose take_dump call failed on the device after
\* the wait, and was seen to fail
C21_Witness ==
    /\ ~is_net
    /\ Len(taken.results) = 101
    /\ ~taken.results[101].ok
    /\ opc = "done"
    /\ result = "agent"
    /\ log[Len(log)].op = "take_dump"


AllOk == \A i \in 1 .. Len(log) : log[i].ok
\* the run left the core to the operator: halted last, nothing taken, read
\* back or written
LeftToOperator ==
    /\ result = "ok"
    /\ halted
    /\ log # <<>>
    /\ log[Len(log)].op = "halt"
    /\ ~LogHas("take_dump")
    /\ ~LogHas("core_file")
    /\ trips = 0
    /\ \A i \in 1 .. Len(log) : log[i].op \notin ReadBackOps

MaxGroup == 2

\* values of header.written around the header size, the window size and the
\* size of one batch of windows
Writtens(r, c) ==
    {0, sizeof_DumpAreaHeader, sizeof_DumpAreaHeader + 1, r, r + 1,
     2 * r + 1, (c + 1) * r, (c + 2) * r + 1}

\* a window that is handed on whole, whatever header.written says
window_len_whole(written, offset, vallen) == vallen

\* lines 617-620
window_len(written, offset, vallen) == Min(vallen, written - offset)

\* lines 607-627: offsets.push((offset, len)) for every window past the first
RECURSIVE plan_offsets(_, _, _)
plan_offsets(written, offset, vallen) ==
    IF offset < written
    THEN <<[offset |-> offset, len |-> window_len(written, offset, vallen)]>>
         \o plan_offsets(written, offset + vallen, vallen)
    ELSE <<>>

\* the two callbacks: read_dump_header's `|_| false` (line 692) and
\* read_dump's, which extends `contents` and returns true (lines 1019-1023)
progress(caller, buf, slice) ==
    IF caller = "read_dump_header" THEN [buf |-> buf, go |-> FALSE]
    ELSE [buf |-> Append(buf, slice), go |-> TRUE]

\* a loop over the headers that stops after the first area
after_area_first_only(caller, at, n) ==
    IF caller = "read_dump_header" THEN "done" ELSE "process"

\* where the caller goes when read_dump_at returned Ok(header): line 692
\* returns it, the loop of lines 1018-1024 takes the next header or ends
after_area(caller, at, n) ==
    IF caller = "read_dump_header" THEN "done"
    ELSE IF at + 1 < n THEN "first"
    ELSE "process"

\* read_dump_at returns Ok(header)
AreaRead ==
    LET next == after_area(rcaller, dndx, Len(dheaders)) IN
    /\ rpc' = next
    /\ dndx' = IF next = "first" THEN dndx + 1 ELSE dndx
    /\ rret' = IF next = "done" THEN "ok" ELSE "none"

\* read_dump_at fails, and its caller with it (the ? of lines 692 and 1023)
ReadFails(err) ==
    /\ rpc' = "done"
    /\ rret' = err
    /\ UNCHANGED dndx

\* lines 572-633 and 670-682: the first read_dump(index, 0) of an area, the
\* check of its header, its first window and the plan of the others;
\* all_ops.chunks(chunksize) of line 635 panics on a chunksize of 0
ReadDumpAtFirst(reply) ==
    /\ rpc = "first"
    /\ LET index == dndx + dbase
           written == dheaders[dndx + 1].written
           size == sizeof_DumpAreaHeader
           first == IF written > size
                    THEN progress(rcaller, pulled,
                                  [area |-> index, from |-> size,
                                   to |-> Min(written, rsize)])
                    ELSE [buf |-> pulled, go |-> TRUE]
           plan == plan_offsets(written, rsize, rsize)
       IN
       /\ calls' = Append(calls, [index |-> index, offset |-> 0])
       /\ IF reply = "ok"
          THEN /\ pulled' = first.buf
               /\ consumed' = 0
               /\ IF ~first.go
                  THEN AreaRead /\ offsets' = <<>>
                  ELSE IF chunksize = 0
                  THEN ReadFails("panic") /\ offsets' = plan
                  ELSE /\ offsets' = plan
                       /\ IF plan = <<>> THEN AreaRead
                          ELSE /\ rpc' = "batch"
                               /\ UNCHANGED <<dndx, rret>>
          ELSE /\ ReadFails(reply)
               /\ UNCHANGED <<pulled, offsets, consumed>>
    /\ UNCHANGED <<rcaller, dheaders, dbase, processed>>
    /\ UNCHANGED <<coreVars, areaVars, parseVars, taken, subargs, is_net, opc,
                   dtask,
                   sel, header0, current_task, picked, halted, timeout, log,
                   result>>

\* lines 635-665: one chunk of the planned reads sent with one context.run
\* and the walk over its results; result `bad` (if not 0) is the error err
ReadDumpAtBatch(runOk, bad, err) ==
    /\ rpc = "batch"
    /\ LET index == dndx + dbase
           n == Min(chunksize, Len(offsets) - consumed)
           good == IF bad = 0 THEN n ELSE bad - 1
           slice(i) == [area |-> index,
                        from |-> offsets[consumed + i].offset,
                        to |-> offsets[consumed + i].offset
                               + offsets[consumed + i].len]
           stops == \E i \in 1 .. good :
                       ~progress(rcaller, <<>>, slice(i)).go
       IN
       /\ bad <= n
       /\ calls' = calls \o [i \in 1 .. n |->
                               [index |-> index,
                                offset |-> offsets[consumed + i].offset]]
       /\ IF ~runOk
          THEN ReadFails("transport") /\ UNCHANGED <<pulled, consumed>>
          ELSE IF stops
          THEN AreaRead /\ UNCHANGED <<pulled, consumed>>
          ELSE /\ pulled' = pulled \o [i \in 1 .. good |-> slice(i)]
               /\ consumed' = consumed + good
               /\ IF bad # 0 THEN ReadFails(err)
                  ELSE IF consumed + n = Len(offsets) THEN AreaRead
                  ELSE UNCHANGED <<rpc, dndx, rret>>
    /\ UNCHANGED <<rcaller, dheaders, dbase, offsets, processed>>
    /\ UNCHANGED <<coreVars, areaVars, parseVars, taken, subargs, is_net, opc,
                   dtask,
                   sel, header0, current_task, picked, halted, timeout, log,
                   result>>

\* line 1037: process_dump(&headers[0], &contents, agent, task)?
ReadDumpProcess(ok) ==
    /\ rpc = "process"
    /\ processed' = Append(processed, pulled)
    /\ rpc' = "done"
    /\ rret' = IF ok THEN "ok" ELSE "process_dump"
    /\ UNCHANGED <<rcaller, dheaders, dbase, dndx, offsets, consumed, pulled,
                   calls>>
    /\ UNCHANGED <<coreVars, areaVars, parseVars, taken, subargs, is_net, opc,
                   dtask,
                   sel, header0, current_task, picked, halted, timeout, log,
                   result>>

\* the errors a reply can carry: no reply at all, the two agent errors, a
\* reply too short for a header, a header with a bad magic
FirstReplies == {"ok", "transport", "InvalidArea", "agent", "parse"}

\* read_dump_header on area 0, or read_dump on the headers it resolved,
\* which exist only if the reply size passed the checks of lines 750-763
\* and the enumeration, with a chunksize of at least 1, came to an end
InitRead ==
    /\ rsize \in ReadSizes
    /\ rdata_size \in RdataSizes
    /\ rcaller \in {"read_dump_header", "read_dump"}
    /\ rcaller = "read_dump"
          => /\ chunksize >= 1
             /\ rsize >= sizeof_DumpAreaHeader + sizeof_DumpSegment
             /\ ((rsize - (sizeof_DumpAreaHeader + sizeof_DumpSegment))
                    \div sizeof_DumpSegmentHeader) >= 16
    /\ dheaders \in UNION {[1 .. n -> [written : Writtens(rsize, chunksize)]] :
                              n \in 1 .. MaxGroup}
    /\ dbase \in {0, 1}
    /\ rcaller = "read_dump_header" => (Len(dheaders) = 1 /\ dbase = 0)
    /\ dndx = 0
    /\ offsets = <<>>
    /\ consumed = 0
    /\ pulled = <<>>
    /\ calls = <<>>
    /\ rpc = "first"
    /\ rret = "none"
    /\ processed = <<>>
    /\ dump = NoDump
    /\ dump_offset = 0
    /\ areas = <<>>
    /\ raw = FALSE
    /\ hpc = "off"
    /\ base = 0
    /\ rval = <<>>
    /\ hret = "none"
    /\ trips = 0
    /\ groups = [panic |-> FALSE, map |-> <<>>]
    /\ printed = <<>>
    /\ flash = [regions |-> EmptyMap, contents |-> <<>>]
    /\ ram_regions = EmptyMap
    /\ registers = EmptyMap
    /\ phase = "new"
    /\ ptask = NoTask
    /\ nrec = 0
    /\ segments = <<>>
    /\ ret = [op |-> "new", arg |-> <<>>, res |-> Res(TRUE)]
    /\ lastAdd = [r \in Regs |-> NoVal]
    /\ subargs = NoArgs
    /\ is_net = FALSE
    /\ opc = "off"
    /\ dtask = NoTask
    /\ sel = NoSel
    /\ header0 = NoHeader
    /\ current_task = NoTask
    /\ picked = NoPick
    /\ halted = FALSE
    /\ timeout = 0
    /\ log = <<>>
    /\ taken = NoProgram
    /\ result = "off"

NextRead ==
    \/ \E reply \in FirstReplies : ReadDumpAtFirst(reply)
    \/ \E runOk \in BOOLEAN, bad \in 0 .. Max({chunksize, 0}),
          err \in {"InvalidArea", "agent"} : ReadDumpAtBatch(runOk, bad, err)
    \/ \E ok \in BOOLEAN : ReadDumpProcess(ok)

SpecRead == InitRead /\ [][NextRead]_vars

(***************************************************************************)
(* Properties of read_dump_at and read_dump                                *)
(***************************************************************************)

\* C23: in every reader operation, the per-area window reads as well as the
\* header enumeration, an InvalidArea result from the transport ends the
\* operation cleanly as end-of-list: no error is returned to the caller for
\* it.
C23_InvalidAreaEndsCleanly == rret # "InvalidArea"


\* the slices of area a in the buffer, in the order they were appended
SlicesOf(buf, a) == SelectSeq(buf, LAMBDA s : s.area = a)

\* the slices are the bytes [size_of(DumpAreaHeader), upto) of one area, in
\* order, none skipped, none twice
Covers24(S, upto) ==
    /\ S # <<>> => S[1].from = 24
    /\ \A i \in 1 .. Len(S) : S[i].from < S[i].to
    /\ \A i \in 1 .. (Len(S) - 1) : S[i].to = S[i + 1].from
    /\ IF upto > 24 THEN S # <<>> /\ S[Len(S)].to = upto ELSE S = <<>>

\* read_dump_at has returned Ok for the area at position k of the headers
ReadWhole(k) ==
    \/ k < dndx
    \/ rpc = "process"
    \/ rpc = "done" /\ rret \in {"ok", "process_dump"}

\* C24: with a callback that always returns true (read_dump's), the bytes
\* read_dump_at hands to it for an area with written = W are, concatenated
\* in call order, exactly the bytes [size_of(DumpAreaHeader), W) of the
\* area: ascending within and across batches, none at or beyond W, none
\* skipped or twice, and nothing when W <= the header size.
C24_WindowsCoverWritten ==
    rcaller = "read_dump"
    => \A k \in 0 .. (Len(dheaders) - 1) :
          LET S == SlicesOf(pulled, dbase + k)
              W == dheaders[k + 1].written
          IN IF ReadWhole(k) THEN Covers24(S, W)
             ELSE /\ k > dndx => S = <<>>
                  /\ S # <<>> => /\ Covers24(S, S[Len(S)].to)
                                 /\ S[Len(S)].to <= W

\* an area read in more than one batch after its first window
C24_Witness ==
    /\ rcaller = "read_dump"
    /\ rpc = "done"
    /\ rret = "ok"
    /\ Len(SlicesOf(pulled, dbase)) > chunksize + 1
    /\ dheaders[1].written % rsize # 0

\* C25: read_dump reads the areas of a logical dump in ascending index
\* order, every one of them, appends each area's payload to one buffer and
\* calls process_dump exactly once, after the last area was read, on the
\* whole concatenated buffer.
C25_ProcessOnceOnWhole ==
    rcaller = "read_dump"
    => /\ \A i \in 1 .. Len(calls) : \A j \in i .. Len(calls) :
             calls[i].index <= calls[j].index
       /\ \A i \in 1 .. Len(pulled) : \A j \in i .. Len(pulled) :
             pulled[i].area <= pulled[j].area
       /\ Len(processed) <= 1
       /\ (rpc = "done" /\ rret \in {"ok", "process_dump"})
             <=> Len(processed) = 1
       /\ processed # <<>>
             => /\ processed[1] = pulled
                /\ {calls[i].index : i \in 1 .. Len(calls)}
                      = {dbase + k : k \in 0 .. (Len(dheaders) - 1)}
                /\ \A k \in 0 .. (Len(dheaders) - 1) :
                      Covers24(SlicesOf(processed[1], dbase + k),
                               dheaders[k + 1].written)

\* a dump of two areas, both with a payload, handed to process_dump
C25_Witness ==
    /\ rcaller = "read_dump"
    /\ Len(dheaders) = 2
    /\ Len(processed) = 1
    /\ SlicesOf(processed[1], dbase) # <<>>
    /\ SlicesOf(processed[1], dbase + 1) # <<>>
    /\ rret = "ok"


(***************************************************************************)
(* Properties of dump_list                                                 *)
(***************************************************************************)

\* the areas of the ring that carry a Task marker, before the first unused
Marked(n) == {i \in 0 .. (n - 1) : areas[i + 1].task # NoTask}

\* sum of header.written over the areas from .. to - 1
RECURSIVE SumWritten(_, _)
SumWritten(from, to) ==
    IF from >= to THEN 0 ELSE AreaWritten(from) + SumWritten(from + 1, to)

\* the end of the group that area i opens: the next marked area, or the
\* first unused one
GroupEnd(i, n) ==
    IF \E j \in Marked(n) : j > i
    THEN CHOOSE j \in Marked(n) : j > i /\ \A l \in Marked(n) : l > i => j <= l
    ELSE n

C28_DecompressedLengthMatches ==
    [][\A seg \in DataSegments :
          ProcessSegment(seg)
          => IF Len(seg.out) = seg.uncompressed_length
             THEN ret'.res.ok
                  => ram_regions'
                        = add_ram_region(ram_regions, seg.address, seg.out)
             ELSE ~ret'.res.ok /\ ram_regions' = ram_regions]_vars


(***************************************************************************)
(* process_dump (lib.rs 864-953) on a buffer of bytes.  The buffer holds   *)
(* the segment header table and, behind it, records laid out back to back; *)
(* dump.len() may cut the last of them short.                              *)
(***************************************************************************)

\* sizes of the packed humpty records process_dump steps over
sizeof_DumpTask == 16
sizeof_DumpRegister == 8
sizeof_DumpSegmentData == 8

\* the records of the buffers: task markers, registers, Data records with
\* the compressed_length of their header and the DUMP_SEGMENT_PAD bytes
\* behind their compressed bytes, and a record of unknown signature
ParseRecords ==
    {[kind |-> "Task", task |-> t] : t \in Tasks}
    \cup {[kind |-> "Register", register |-> r, value |-> 1] :
            r \in {"R0", BadReg}}
    \cup {[kind |-> "Data", address |-> 0, uncompressed_length |-> 1,
           out |-> <<1>>, compressed_length |-> c, pad |-> p] :
            c \in {1, 2}, p \in {0, 1}}
    \cup {[kind |-> "Unknown"]}

\* the bytes DumpSegment::from needs to tell the record
fixed_size(rec) ==
    CASE rec.kind = "Task" -> sizeof_DumpTask
      [] rec.kind = "Register" -> sizeof_DumpRegister
      [] OTHER -> sizeof_DumpSegmentData

\* the bytes the record and its padding take in a whole buffer
record_size(rec) ==
    IF rec.kind = "Data"
    THEN sizeof_DumpSegmentData + rec.compressed_length + rec.pad
    ELSE fixed_size(rec)

\* offset of record i (1-based) of the buffer
RECURSIVE record_start(_, _)
record_start(d, i) ==
    IF i = 1 THEN d.nsegments * sizeof_DumpSegmentHeader
    ELSE record_start(d, i - 1) + record_size(d.recs[i - 1])

\* the buffers: up to MaxRecords records behind a table of 0 or 1 segment
\* headers, cut anywhere
ParseDumps ==
    {d \in [nsegments : {0, 1},
            recs : UNION {[1 .. n -> ParseRecords] : n \in 0 .. (MaxRecords - 1)},
            len : 0 .. ((MaxRecords + 1) * sizeof_DumpTask)] :
        d.len <= record_start(d, Len(d.recs) + 1)}

\* the record that starts at offset
record_at(d, offset) ==
    d.recs[CHOOSE i \in 1 .. Len(d.recs) : record_start(d, i) = offset]

\* lines 870-879
ParseStart(task) ==
    /\ phase = "new"
    /\ LET offset == dump.nsegments * sizeof_DumpSegmentHeader IN
       IF offset > dump.len \/ offset = dump.len
       THEN /\ phase' = "failed"
            /\ ptask' = NoTask
            /\ ret' = [op |-> "process_dump", arg |-> <<>>, res |-> Res(FALSE)]
            /\ UNCHANGED dump_offset
       ELSE /\ phase' = "process"
            /\ ptask' = task
            /\ ret' = [op |-> "process_dump", arg |-> <<>>, res |-> Res(TRUE)]
            /\ dump_offset' = offset
    /\ UNCHANGED <<flash, ram_regions, registers, nrec, segments, lastAdd>>
    /\ UNCHANGED <<areaVars, dump, readVars, taken, subargs, is_net, opc,
                   dtask, sel, header0, current_task, picked, halted, timeout,
                   log, result>>

\* lines 881-950: one iteration of `while offset < dump.len()`.  A record
\* whose fixed part is cut short is a short read (lines 882-887); the
\* compressed bytes of a Data record are sliced as &dump[offset..limit]
\* (line 929), which panics when limit is beyond the buffer.
ParseRecord ==
    /\ phase = "process"
    /\ dump_offset < dump.len
    /\ LET rec == record_at(dump, dump_offset)
           short == dump.len - dump_offset < fixed_size(rec)
           seg == IF short THEN [kind |-> "Short"] ELSE rec
           limit == dump_offset + sizeof_DumpSegmentData
                    + rec.compressed_length
           r == process_segment(ram_regions, registers, ptask, seg)
       IN
       IF seg.kind = "Data" /\ limit > dump.len
       THEN /\ phase' = "panic"
            /\ ret' = [op |-> "process_dump", arg |-> <<seg.kind>>,
                       res |-> Res(FALSE)]
            /\ UNCHANGED <<ram_regions, registers, ptask, nrec, lastAdd,
                           dump_offset>>
       ELSE /\ ram_regions' = r.ram_regions
            /\ registers' = r.registers
            /\ phase' = IF r.ok THEN "process" ELSE "failed"
            /\ ptask' = IF r.ok THEN ptask ELSE NoTask
            /\ nrec' = IF r.ok THEN nrec + 1 ELSE 0
            /\ ret' = [op |-> "process_dump", arg |-> <<seg.kind>>,
                       res |-> Res(r.ok)]
            /\ lastAdd' = IF seg.kind = "Register" /\ seg.register \in Regs
                          THEN [lastAdd EXCEPT ![seg.register] = seg.value]
                          ELSE lastAdd
            /\ dump_offset' =
                  IF ~r.ok THEN dump_offset
                  ELSE IF seg.kind = "Data"
                  THEN Min(dump.len, limit + rec.pad)
                  ELSE dump_offset + fixed_size(rec)
    /\ UNCHANGED <<flash, segments>>
    /\ UNCHANGED <<areaVars, dump, readVars, taken, subargs, is_net, opc,
                   dtask, sel, header0, current_task, picked, halted, timeout,
                   log, result>>

\* offset has reached dump.len(): line 952
ParseDone ==
    /\ phase = "process"
    /\ dump_offset >= dump.len
    /\ phase' = "loaded"
    /\ ptask' = NoTask
    /\ nrec' = 0
    /\ ret' = [op |-> "process_dump", arg |-> <<"end">>, res |-> Res(TRUE)]
    /\ UNCHANGED <<flash, ram_regions, registers, segments, lastAdd>>
    /\ UNCHANGED <<areaVars, parseVars, readVars, taken, subargs, is_net, opc,
                   dtask, sel, header0, current_task, picked, halted, timeout,
                   log, result>>

InitParse ==
    /\ dump \in ParseDumps
    /\ dump_offset = 0
    /\ flash = [regions |-> EmptyMap, contents |-> <<>>]
    /\ ram_regions = EmptyMap
    /\ registers = EmptyMap
    /\ phase = "new"
    /\ ptask = NoTask
    /\ nrec = 0
    /\ segments = <<>>
    /\ ret = [op |-> "new", arg |-> <<>>, res |-> Res(TRUE)]
    /\ lastAdd = [r \in Regs |-> NoVal]
    /\ areas = <<>>
    /\ rdata_size = Max(RdataSizes)
    /\ rsize = Max(ReadSizes)
    /\ raw = FALSE
    /\ hpc = "off"
    /\ base = 0
    /\ rval = <<>>
    /\ hret = "none"
    /\ trips = 0
    /\ groups = [panic |-> FALSE, map |-> <<>>]
    /\ printed = <<>>
    /\ subargs = NoArgs
    /\ is_net = FALSE
    /\ opc = "off"
    /\ dtask = NoTask
    /\ sel = NoSel
    /\ header0 = NoHeader
    /\ current_task = NoTask
    /\ picked = NoPick
    /\ halted = FALSE
    /\ timeout = 0
    /\ log = <<>>
    /\ taken = NoProgram
    /\ result = "off"
    /\ rcaller = "none"
    /\ dheaders = <<>>
    /\ dbase = 0
    /\ dndx = 0
    /\ offsets = <<>>
    /\ consumed = 0
    /\ pulled = <<>>
    /\ calls = <<>>
    /\ rpc = "off"
    /\ rret = "none"
    /\ processed = <<>>

NextParse ==
    \/ \E task \in Tasks \cup {NoTask} : ParseStart(task)
    \/ ParseRecord
    \/ ParseDone

SpecParse == InitParse /\ [][NextParse]_vars

\* the record process_dump stopped at extends beyond the end of the buffer
StoppedAtCutRecord ==
    /\ phase \in {"failed", "panic"}
    /\ ret.arg # <<>>
    /\ dump_offset < dump.len
    /\ LET rec == record_at(dump, dump_offset) IN
       dump_offset + fixed_size(rec)
          + (IF rec.kind = "Data" THEN rec.compressed_length ELSE 0)
       > dump.len

\* C27: segment parsing never slices past the buffer: a record whose fixed
\* part or whose compressed_length bytes extend beyond the end of the
\* buffer makes process_dump return a short-read error, the length being
\* compared with the buffer size before the bytes are sliced; no
\* out-of-bounds access or crash is reachable.
C27_NeverSlicesPastBuffer ==
    /\ phase # "panic"
    /\ StoppedAtCutRecord => (phase = "failed" /\ ret.arg = <<"Short">>)

(***************************************************************************)
(* dumpcmd (lib.rs 1355-1395): the command line is parsed into DumpArgs    *)
(* and the run is handed to dump_list, dump_agent_status, dump_via_agent   *)
(* or the direct path.                                                     *)
(***************************************************************************)
NetForceMsg == "can only force the dump agent when attached via debug probe"
MustForceMsg == "must also use --force-dump-agent to initialize dump agent"

\* line 1360: DumpArgs::try_parse_from(subargs)?
DumpCmdParse ==
    /\ opc = "cli"
    /\ IF parser_accepts(subargs)
       THEN Step("parsed", "running", <<>>)
       ELSE Return("usage", <<>>)
    /\ UNCHANGED <<parseVars, readVars, taken, subargs, is_net,
                   dtask, sel, header0, current_task, picked,
                   halted, timeout>>
    /\ UNCHANGED <<registers, ram_regions, segments, coreRest, areaVars>>

\* lines 1362-1380: the function the parsed flags and the core select
DumpCmdDispatch ==
    /\ opc = "parsed"
    /\ IF subargs.force_dump_agent /\ is_net THEN Return(NetForceMsg, <<>>)
       ELSE IF subargs.list THEN Step("dump_list", "running", <<>>)
       ELSE IF subargs.dump_agent_status
            THEN Step("dump_agent_status", "running", <<>>)
       ELSE IF \/ is_net
               \/ subargs.force_dump_agent
               \/ subargs.force_read
               \/ subargs.area # NoArea
            THEN Step("start", "running", <<>>)
       ELSE IF subargs.initialize_dump_agent THEN Return(MustForceMsg, <<>>)
       ELSE Step("direct", "running", <<>>)
    /\ UNCHANGED <<parseVars, readVars, taken, subargs, is_net,
                   dtask, sel, header0, current_task, picked,
                   halted, timeout>>
    /\ UNCHANGED <<registers, ram_regions, segments, coreRest, areaVars>>

\* lines 1381-1382: core.halt()? of the direct path
DirectHalt(ok) ==
    /\ opc = "direct"
    /\ halted' = ok
    /\ IF ok THEN Step("direct_dump", "running", <<Op("halt", TRUE)>>)
       ELSE Return("target", <<Op("halt", FALSE)>>)
    /\ UNCHANGED <<parseVars, readVars, taken, subargs, is_net,
                   dtask, sel, header0, current_task, picked,
                   timeout>>
    /\ UNCHANGED <<registers, ram_regions, segments, coreRest, areaVars>>

\* line 1384: let rval = hubris.dump(core, None, dumpfile, None), kept in
\* `result` until the function returns it
DirectDump(ok) ==
    /\ opc = "direct_dump"
    /\ Step("direct_resume", IF ok THEN "ok" ELSE "writer",
            <<Op("core_file", ok)>>)
    /\ UNCHANGED <<parseVars, readVars, taken, subargs, is_net,
                   dtask, sel, header0, current_task, picked,
                   halted, timeout>>
    /\ UNCHANGED <<registers, ram_regions, segments, coreRest, areaVars>>

\* a direct path that leaves the core halted when the writer failed
DirectResume_only_on_success(ok) ==
    /\ opc = "direct_resume"
    /\ IF ~subargs.leave_halted /\ result = "ok"
       THEN /\ halted' = ~ok
            /\ Return(IF ok THEN result ELSE "target", <<Op("run", ok)>>)
       ELSE /\ UNCHANGED halted
            /\ Return(result, <<>>)
    /\ UNCHANGED <<parseVars, readVars, taken, subargs, is_net,
                   dtask, sel, header0, current_task, picked,
                   timeout>>
    /\ UNCHANGED <<registers, ram_regions, segments, coreRest, areaVars>>

\* lines 1386-1393: core.run()? unless --leave-halted, then rval
DirectResume(ok) ==
    /\ opc = "direct_resume"
    /\ IF ~subargs.leave_halted
       THEN /\ halted' = ~ok
            /\ Return(IF ok THEN result ELSE "target", <<Op("run", ok)>>)
       ELSE /\ UNCHANGED halted
            /\ Return(result, <<>>)
    /\ UNCHANGED <<parseVars, readVars, taken, subargs, is_net,
                   dtask, sel, header0, current_task, picked,
                   timeout>>
    /\ UNCHANGED <<registers, ram_regions, segments, coreRest, areaVars>>

InitCli ==
    /\ subargs \in DumpArgsSet
    /\ is_net \in BOOLEAN
    /\ opc = "cli"
    /\ dtask = NoTask
    /\ sel = NoSel
    /\ header0 = NoHeader
    /\ current_task = NoTask
    /\ picked = NoPick
    /\ halted = FALSE
    /\ timeout = DefaultTimeout
    /\ log = <<>>
    /\ taken = NoProgram
    /\ rcaller = "none"
    /\ dheaders = <<>>
    /\ dbase = 0
    /\ dndx = 0
    /\ offsets = <<>>
    /\ consumed = 0
    /\ pulled = <<>>
    /\ calls = <<>>
    /\ rpc = "off"
    /\ rret = "none"
    /\ processed = <<>>
    /\ dump = NoDump
    /\ dump_offset = 0
    /\ result = "running"
    /\ areas = <<>>
    /\ rdata_size = Max(RdataSizes)
    /\ rsize \in ReadSizes
    /\ raw = FALSE
    /\ hpc = "off"
    /\ base = 0
    /\ rval = <<>>
    /\ hret = "none"
    /\ trips = 0
    /\ groups = [panic |-> FALSE, map |-> <<>>]
    /\ printed = <<>>
    /\ flash = [regions |-> EmptyMap, contents |-> <<>>]
    /\ ram_regions = EmptyMap
    /\ registers = EmptyMap
    /\ phase = "new"
    /\ ptask = NoTask
    /\ nrec = 0
    /\ segments = <<>>
    /\ ret = [op |-> "new", arg |-> <<>>, res |-> Res(TRUE)]
    /\ lastAdd = [r \in Regs |-> NoVal]

NextCli ==
    \/ DumpCmdParse
    \/ DumpCmdDispatch
    \/ \E ok \in BOOLEAN : DirectHalt(ok)
    \/ \E ok \in BOOLEAN : DirectDump(ok)
    \/ \E ok \in BOOLEAN : DirectResume(ok)

SpecCli == InitCli /\ [][NextCli]_vars

\* the mutual-exclusion matrix of the command line
Matrix(a) ==
    LET simulation == a.simulate_dumper \/ a.emulate_dumper IN
    /\ a.simulate_dumper => (a.force_dump_agent /\ ~a.emulate_dumper)
    /\ a.emulate_dumper => (a.force_dump_agent /\ ~a.simulate_dumper)
    /\ a.stock_dumpfile => (simulation /\ a.task = NoTask)
    /\ a.area # NoArea => (a.task = NoTask /\ ~simulation /\ ~a.list)
    /\ a.retain_state => (a.task = NoTask /\ ~a.list /\ a.area = NoArea)
    /\ a.force_overwrite
         => (~a.initialize_dump_agent /\ ~a.simulate_dumper)
    /\ a.task # NoTask => simulation

\* C29: every flag set the parser accepts satisfies the mutual-exclusion
\* matrix: simulate_dumper and emulate_dumper each need force_dump_agent
\* and exclude each other, stock_dumpfile needs a simulation flag and
\* excludes task, area excludes task, simulation and list, retain_state
\* excludes task, list and area, force_overwrite excludes
\* initialize_dump_agent and simulate_dumper, task needs a simulation flag.
C29_ParserMatrix ==
    (opc # "cli" /\ result # "usage") => Matrix(subargs)

\* an accepted command line that emulates the dumper for one task and
\* overwrites the dump state
C29_Witness ==
    /\ opc = "start"
    /\ subargs.emulate_dumper
    /\ subargs.force_dump_agent
    /\ subargs.force_overwrite
    /\ subargs.task # NoTask
    /\ Matrix(subargs)


\* C30: in every run with simulate_dumper set no dump-agent operation
\* (read_dump, initialize_dump, add_dump_segment, take_dump) is issued to
\* the device, from the start of the run to its return.
C30_SimulateSkipsAgent ==
    subargs.simulate_dumper
    => \A i \in 1 .. Len(log) : log[i].op \notin AgentOps


(***************************************************************************)
(* Properties of the emulate branch and of read_dump's selector            *)
(***************************************************************************)
\* a run asked to emulate the dumper for one task
EmulatedTask == subargs.emulate_dumper /\ subargs.task # NoTask

\* the position of an operation in the emulated task dump
EmuStage(i) ==
    CASE log[i].op = "halt" -> 1
      [] log[i].op = "claim_dump_area" -> 2
      [] log[i].op = "add_dump_segment_header" -> 3
      [] log[i].op = "emulate_dump" -> 4
      [] log[i].op = "run" -> 5
      [] log[i].op \in ReadBackOps -> 6
      [] OTHER -> 0

EmuCount(name) == Cardinality({i \in 1 .. Len(log) : log[i].op = name})

\* claiming the area or writing a segment header failed
PrepFailed ==
    \E i \in 1 .. Len(log) :
        /\ log[i].op \in {"claim_dump_area", "add_dump_segment_header"}
        /\ ~log[i].ok

\* the emulated dump was taken and the core resumed after it
EmulatedAndResumed ==
    /\ \E i \in 1 .. Len(log) : log[i].op = "emulate_dump" /\ log[i].ok
    /\ \E i \in 1 .. Len(log) : log[i].op = "run" /\ log[i].ok

\* the areas read_dump picked are the task dump at the selector's address
PickedAtAddress ==
    /\ sel.kind = "address"
    /\ picked.task # NoTask
    /\ rval[picked.base + 1].header.address = sel.at

\* C31: with emulate_dumper and a task the operations are issued in the
\* order halt, claim of an area, one segment header per dump segment,
\* dumper loop, run, read-back; the read-back only follows a successful
\* run and reads the task dump at the claimed area's address; if the claim
\* or a segment header write fails the core is resumed and neither the
\* dumper loop nor the read-back is run.
C31_EmulatedTaskOrder ==
    EmulatedTask
    => /\ \A i \in 1 .. Len(log) : \A j \in 1 .. Len(log) :
             (i < j /\ EmuStage(i) > 0 /\ EmuStage(j) > 0)
             => EmuStage(i) <= EmuStage(j)
       /\ EmuCount("halt") <= 1
       /\ EmuCount("claim_dump_area") <= 1
       /\ LogHas("emulate_dump")
             => /\ EmuCount("add_dump_segment_header") = Len(segments)
                /\ EmuCount("claim_dump_area") = 1
                /\ EmuCount("halt") = 1
                /\ ~PrepFailed
                /\ sel.kind = "address"
       /\ (trips > 0 \/ \E i \in 1 .. Len(log) : log[i].op \in ReadBackOps)
             => EmulatedAndResumed
       /\ picked # NoPick => PickedAtAddress
       /\ PrepFailed
             => /\ opc = "done"
                /\ log[Len(log)].op = "run"
                /\ ~LogHas("emulate_dump")
                /\ trips = 0
                /\ \A i \in 1 .. Len(log) : log[i].op \notin ReadBackOps


\* read_dump has resolved its selector against a non-empty enumeration
Resolved == hpc = "done" /\ hret = "ok" /\ opc # "headers" /\ rval # <<>>

\* the number of areas of the task group that starts at enumerated index i
GroupLen(i) ==
    LET later == {j \in (i + 1) .. (Len(rval) - 1) : rval[j + 1].task # NoTask}
    IN IF later = {} THEN Len(rval) - i
       ELSE (CHOOSE j \in later : \A l \in later : j <= l) - i

\* read_dump failed before any area's payload was read
FailedUnread ==
    /\ picked = NoPick
    /\ opc = "done"
    /\ result \in {"area is invalid", "area must be explicitly specified"}
    /\ ~LogHas("read_dump_at")

\* the selector means the whole system: none, or index 0
WholeSelector == sel.kind = "none" \/ (sel.kind = "index" /\ sel.at = 0)

\* C32: read_dump resolves its selector as follows.  No selector or index 0
\* with no Task marker in area 0 reads all enumerated areas from index 0 as
\* a whole-system dump; an index selector succeeds only on the first index
\* of a task group and then selects exactly that group; a spill-over index,
\* an index past the last dump and an address that matches no enumerated
\* header fail without any payload read; no selector with a Task marker in
\* area 0 fails asking for an explicit area.
C32_SelectorResolution ==
    Resolved
    => /\ (WholeSelector /\ rval[1].task = NoTask)
             => picked = [base |-> 0, n |-> Len(rval), task |-> NoTask]
       /\ (sel.kind = "index" /\ picked # NoPick
              /\ ~(sel.at = 0 /\ rval[1].task = NoTask))
             => /\ sel.at < Len(rval)
                /\ rval[sel.at + 1].task # NoTask
                /\ picked = [base |-> sel.at, n |-> GroupLen(sel.at),
                             task |-> rval[sel.at + 1].task]
       /\ (sel.kind = "index" /\ sel.at > 0
              /\ (sel.at >= Len(rval) \/ rval[sel.at + 1].task = NoTask))
             => FailedUnread
       /\ (sel.kind = "address"
              /\ \A i \in 1 .. Len(rval) : rval[i].header.address # sel.at)
             => FailedUnread
       /\ (sel.kind = "none" /\ rval[1].task # NoTask)
             => (FailedUnread /\ result = "area must be explicitly specified")

\* a record process_dump may pass when it expects task t
Acceptable(rec, t) ==
    \/ rec.kind = "Data"
    \/ rec.kind = "Register" /\ rec.register \in Regs
    \/ rec.kind = "Task" /\ t # NoTask /\ rec.task = t

\* every record that starts before offset
PassedRecords(offset) ==
    {i \in 1 .. Len(dump.recs) : record_start(dump, i) < offset}

\* C33: process_dump never passes a record with an unknown signature, a
\* Task record when no task is expected or one that differs from the
\* expected task, or a Register record with an unrecognised register id:
\* the records before its offset are matching Task, known Register or Data
\* records, and it returns success only with its offset at the end of the
\* buffer, every record of the buffer being one of these.
C33_RejectsInconsistent ==
    /\ [](phase = "process"
            => \A i \in PassedRecords(dump_offset) :
                  Acceptable(dump.recs[i], ptask))
    /\ [][phase' = "loaded"
            => /\ phase = "process"
               /\ dump_offset >= dump.len
               /\ PassedRecords(dump_offset) = PassedRecords(dump.len)]_vars

\* a buffer of a Task record and a register of that task, parsed to its end
C33_Witness ==
    /\ phase = "loaded"
    /\ Len(dump.recs) = 2
    /\ dump.recs[1].kind = "Task"
    /\ dump.recs[2].kind = "Register"
    /\ dump.len = record_start(dump, 3)

\* the agent path asked to initialize the dump agent
InitializeCase ==
    /\ subargs.initialize_dump_agent
    /\ ~subargs.force_read
    /\ subargs.area = NoArea

\* the header of area 0 was read and the agent initialized, nothing else
InitializedOnly ==
    log = <<[op |-> "read_dump", ok |-> TRUE, timeout |-> DefaultTimeout],
            [op |-> "initialize_dump", ok |-> TRUE,
             timeout |-> DefaultTimeout]>>

\* C34: with initialize_dump_agent in the agent path (no force_read, no
\* area) the run issues, after the read of area 0's header, one
\* initialize_dump and returns success, whatever the dumper field of the
\* header: no add_dump_segment, take_dump, halt, read-back or core file is
\* ever issued, and the run ends otherwise only when one of the two
\* operations fails.
C34_InitializeOnly ==
    InitializeCase
    => /\ \A i \in 1 .. Len(log) :
             log[i].op \in {"read_dump", "initialize_dump"}
       /\ EmuCount("initialize_dump") <= 1
       /\ trips = 0
       /\ ~halted
       /\ opc \in {"start", "read_header", "init", "done"}
       /\ (opc = "done" /\ AllOk) => (result = "ok" /\ InitializedOnly)
       /\ result = "ok" => InitializedOnly

\* the agent held a dump and was initialized all the same
C34_Witness ==
    /\ InitializeCase
    /\ opc = "done"
    /\ result = "ok"
    /\ header0 # NoHeader
    /\ header0.dumper # DUMPER_NONE
    /\ InitializedOnly

\* C35: when the run is refused because a dump is in situ, the one
\* operation issued is the read_dump of area 0's header: no initialize_dump,
\* add_dump_segment or take_dump was sent, the core was not halted and
\* nothing was read back or written.
C35_RefusalLeavesDevice ==
    result = RefusedMsg
    => /\ Len(log) = 1
       /\ log[1].op = "read_dump"
       /\ log[1].ok
       /\ ~halted
       /\ taken = NoProgram
       /\ trips = 0
       /\ picked = NoPick

\* a network-attached run refused on a ring that holds a dump
C35_Witness ==
    /\ result = RefusedMsg
    /\ opc = "done"
    /\ is_net
    /\ header0.dumper # DUMPER_NONE
    /\ log[1].op = "read_dump"

\* the read-back and the writing of the core file
SaveOps == ReadBackOps \cup {"core_file"}

\* C36: an initialize_dump issued after the read-back or the core file
\* writer has started comes after a core file writer that returned
\* success and after no failed read-back; once the enumeration, the
\* selection, a read of an area, the parsing or the writer has failed, no
\* initialize_dump is issued any more.
C36_ClearedOnlyWhenSaved ==
    /\ \A i \in 1 .. Len(log) :
          (/\ log[i].op = "initialize_dump"
           /\ \E j \in 1 .. (i - 1) : log[j].op \in SaveOps)
          => /\ \E j \in 1 .. (i - 1) : log[j].op = "core_file" /\ log[j].ok
             /\ \A j \in 1 .. (i - 1) : log[j].op \in SaveOps => log[j].ok
             /\ i = Len(log)
    /\ \A j \in 1 .. Len(log) :
          (log[j].op \in SaveOps /\ ~log[j].ok)
          => (j = Len(log) /\ opc = "done" /\ result # "ok")
    /\ result \in {"process_dump", "writer", "area is invalid",
                    "area must be explicitly specified"}
          => (opc = "done" /\ log[Len(log)].op # "initialize_dump")

\* the agent was reset after the dump read back was written to a core file
C36_Witness ==
    /\ opc = "done"
    /\ result = "ok"
    /\ LogHas("read_dump_at")
    /\ log[Len(log)].op = "initialize_dump"
    /\ log[Len(log) - 1].op = "core_file"
    /\ log[Len(log) - 1].ok


\* read_dump got an empty list of headers from the enumeration
EmptyEnumeration ==
    /\ hpc = "done"
    /\ hret = "ok"
    /\ rval = <<>>
    /\ opc \notin {"headers", "read_dump"}

\* C37: when the non-raw enumeration returns an empty list, read_dump
\* returns an error for every selector and never indexes into the list.
C37_EmptyRingFailsCleanly ==
    EmptyEnumeration
    => /\ opc = "done"
       /\ result \in {"area is invalid", "area must be explicitly specified"}

\* C38: in an enumeration that passed the sanity checks every round trip
\* requests at least one area, the base index grows by at least one with
\* each round trip, and the loop is left after at most one round trip per
\* area of the device and the one that meets the end of the areas.
C38_EnumerationTerminates ==
    hpc = "loop"
    => /\ chunksize >= 1
       /\ base >= trips
       /\ trips <= Len(areas)

\* the command line and the core that dumpcmd serves itself
DirectPath ==
    /\ opc \notin {"cli", "parsed"}
    /\ result # "usage"
    /\ ~is_net
    /\ ~subargs.force_dump_agent
    /\ ~subargs.force_read
    /\ subargs.area = NoArea
    /\ ~subargs.list
    /\ ~subargs.dump_agent_status

\* C39: in the direct path the core file writer runs only after a
\* successful halt and before any run; once the writer has returned, with
\* or without an error, the path ends with run as its last operation
\* unless leave_halted is set, and then it ends with the core halted and
\* no run issued; with initialize_dump_agent the command is rejected
\* before any operation.
C39_DirectPath ==
    DirectPath
    => /\ \A i \in 1 .. Len(log) :
             log[i].op = "core_file"
             => /\ \E j \in 1 .. (i - 1) : log[j].op = "halt" /\ log[j].ok
                /\ \A j \in 1 .. (i - 1) : log[j].op # "run"
       /\ (opc = "done" /\ LogHas("core_file"))
             => IF subargs.leave_halted
                THEN /\ halted
                     /\ ~LogHas("run")
                     /\ log[Len(log)].op = "core_file"
                     /\ result = IF log[Len(log)].ok THEN "ok" ELSE "writer"
                ELSE /\ log[Len(log)].op = "run"
                     /\ log[Len(log) - 1].op = "core_file"
                     /\ log[Len(log)].ok => ~halted
                     /\ log[Len(log)].ok
                           => result = IF log[Len(log) - 1].ok
                                       THEN "ok" ELSE "writer"
       /\ subargs.initialize_dump_agent
             => (opc = "done" /\ result = MustForceMsg /\ log = <<>>
                 /\ ~halted)

\* the writer failed and the core was resumed all the same
C39_Witness ==
    /\ DirectPath
    /\ opc = "done"
    /\ result = "writer"
    /\ ~subargs.leave_halted
    /\ ~halted
    /\ log[Len(log)].op = "run"

\* C40: the assertion of the emulate branch never fails: for every command
\* line the parser accepts, no area selector is set when an emulated task
\* dump is about to install its by-address selector.
C40_AssertNeverFails ==
    /\ result # AssertMsg
    /\ (opc = "emu_prep" /\ dtask # NoTask)
          => (sel = NoSel /\ subargs.area = NoArea)

\* an emulated task dump that got past the assertion
C40_Witness ==
    /\ opc = "emu_dump"
    /\ dtask # NoTask
    /\ subargs.area = NoArea
    /\ sel.kind = "address"

====
